---- MODULE Spec2Model ----
(***************************************************************************)
(* Model of lms/djangoapps/discussion/rest_api/api.py: the request         *)
(* handlers of the discussion REST API, over a small comment service       *)
(* (threads, comments, votes, subscriptions) and a small course catalogue. *)
(* Every handler is one action: it runs to completion and leaves the       *)
(* outcome of the call in `last`.                                          *)
(***************************************************************************)
EXTENDS Integers, Sequences, FiniteSets, TLC

VARIABLES
    threads,     \* comment service: thread id -> stored thread
    comments,    \* comment service: comment id -> stored comment
    created,     \* number of items the service has created so far
    writes,      \* number of calls that changed the comment service
    blackout,    \* TRUE while the course clock is inside a blackout window
    down,        \* the calls to the comment service whose request fails
    last,        \* the call just made: arguments, outcome, response, effects
    prev         \* summary of the update call made right before `last`

vars == <<threads, comments, created, writes, blackout, down, last, prev>>
world == <<threads, comments, created>>

\* Python's None
None == "None"

----------------------------------------------------------------------------
\* Bounds of the model

\* calls that change the comment service, per behaviour
MaxWrites == 1
\* updates of votes that change the comment service, per behaviour
MaxVotes == 2
\* updates that change the comment service, per behaviour
MaxUpdates == 2
\* largest page number requested
MaxPage == 3
\* largest page size requested
MaxPageSize == 2

----------------------------------------------------------------------------
\* Sequence helpers

Range(s) == {s[i] : i \in 1..Len(s)}

\* Python's s[a:b] for 0 <= a <= b (0-based, b exclusive)
Slice(s, a, b) ==
    LET lo == IF a < Len(s) THEN a ELSE Len(s)
        hi == IF b < Len(s) THEN b ELSE Len(s)
    IN  IF hi <= lo THEN <<>> ELSE SubSeq(s, lo + 1, hi)

RECURSIVE SeqFilter(_, _)
SeqFilter(s, keep) ==
    IF s = <<>> THEN <<>>
    ELSE IF Head(s) \in keep THEN <<Head(s)>> \o SeqFilter(Tail(s), keep)
    ELSE SeqFilter(Tail(s), keep)

\* a set as a sequence, in some order (Python's iteration order of a set)
RECURSIVE SetToSeq(_)
SetToSeq(S) ==
    IF S = {} THEN <<>>
    ELSE LET x == CHOOSE y \in S : TRUE IN <<x>> \o SetToSeq(S \ {x})

\* ceiling division as the handlers write it
CeilDiv(n, d) == (n + d - 1) \div d

----------------------------------------------------------------------------
\* The course catalogue, the users and the forum roles (the collaborators
\* the handlers call; fixed for the whole run)

Users == {"alice", "bob", "carol", "mod"}

\* User.objects.get(username=...): the usernames that name a user
UserByName(username) == IF username \in Users THEN username ELSE None

Courses == {"cA", "cB", "cC"}

\* CourseKey.from_string: the strings that parse as a course key
ValidCourseKey(course_id) == course_id \in Courses \cup {"cX"}

\* get_course_with_access(user, 'load', course_key, check_if_enrolled=True)
\* finds the course: it exists and the user is enrolled in it
get_course_with_access(user, course_key) ==
    /\ course_key \in Courses
    /\ ~(user = "carol" /\ course_key = "cB")

\* CourseTabList.get_tab_by_type(course.tabs, 'discussion'): None when absent
discussion_tab(course_key) == IF course_key = "cB" THEN None ELSE "discussion"

\* discussion_tab.is_enabled(course, user)
tab_is_enabled(course_key, user) ==
    \/ course_key = "cA"
    \/ course_key = "cC" /\ user = "mod"

\* get_user_role_names(user, course_key)
get_user_role_names(user, course_key) ==
    IF user = "mod" THEN {"Moderator"} ELSE {"Student"}

PrivilegedRoles == {"Administrator", "Moderator", "Community TA"}

\* get_context(...)["is_requester_privileged"]
is_requester_privileged(user, course_key) ==
    get_user_role_names(user, course_key) \cap PrivilegedRoles # {}

\* get_group_id_for_user(user, course_discussion_settings)
get_group_id_for_user(user) ==
    CASE user = "alice" -> "g1"
      [] user = "bob"   -> "g2"
      [] user = "mod"   -> "g2"
      [] OTHER          -> None

\* is_commentable_divided(course_key, commentable_id, settings)
is_commentable_divided(course_key, commentable_id) ==
    course_key = "cA" /\ commentable_id = "w1a"

\* discussion_open_for_user(course, user): privileged users may always post
discussion_open_for_user(course_key, user) ==
    is_requester_privileged(user, course_key) \/ ~blackout

\* course.get_discussion_blackout_datetimes(): start and end, each a local
\* time and a UTC offset
get_discussion_blackout_datetimes(course_key) ==
    IF course_key = "cA"
    THEN << [start |-> [t |-> "2020-10-20T23:59:00", offset |-> "+00:00"],
             end   |-> [t |-> "2020-10-27T23:59:00", offset |-> "+00:00"]],
            [start |-> [t |-> "2020-11-01T00:00:00", offset |-> "+05:00"],
             end   |-> [t |-> "2020-11-02T00:00:00", offset |-> "+05:00"]] >>
    ELSE <<>>

\* course.discussion_topics: the freestanding topics, name -> entry
discussion_topics(course_key) ==
    CASE course_key = "cA" ->
            << [name |-> "General", id |-> "gen", sort_key |-> None],
               [name |-> "Announcements", id |-> "ann", sort_key |-> "Z"] >>
      [] course_key = "cC" ->
            << [name |-> "General", id |-> "genC", sort_key |-> None] >>
      [] OTHER -> <<>>

\* the discussion xblocks of the course, in course order
discussion_xblocks(course_key) ==
    IF course_key = "cA"
    THEN << [discussion_id |-> "w1b", discussion_category |-> "Week 1",
             discussion_target |-> "Unit B", sort_key |-> None, staff_only |-> FALSE],
            [discussion_id |-> "w2a", discussion_category |-> "Week 2",
             discussion_target |-> "Unit A", sort_key |-> "A", staff_only |-> FALSE],
            [discussion_id |-> "w1a", discussion_category |-> "Week 1",
             discussion_target |-> "Unit A", sort_key |-> None, staff_only |-> FALSE],
            [discussion_id |-> "w0s", discussion_category |-> "Staff",
             discussion_target |-> "Unit A", sort_key |-> None, staff_only |-> TRUE] >>
    ELSE <<>>

\* get_accessible_discussion_xblocks(course, user)
RECURSIVE AccessibleFrom(_, _)
AccessibleFrom(xblocks, user) ==
    IF xblocks = <<>> THEN <<>>
    ELSE IF Head(xblocks).staff_only /\ user # "mod"
         THEN AccessibleFrom(Tail(xblocks), user)
         ELSE <<Head(xblocks)>> \o AccessibleFrom(Tail(xblocks), user)

get_accessible_discussion_xblocks(course_key, user) ==
    AccessibleFrom(discussion_xblocks(course_key), user)

\* Python's order of the strings that are sorted here
StrOrder == << "A", "Announcements", "General", "Staff", "Unit A", "Unit B",
               "Week 1", "Week 2", "Z" >>

StrRank(str) == CHOOSE i \in 1..Len(StrOrder) : StrOrder[i] = str

\* sorted(pairs, key=...): a stable insertion sort of <<key, value>> pairs by
\* their string key
RECURSIVE InsertSorted(_, _)
InsertSorted(x, sorted) ==
    IF sorted = <<>> THEN <<x>>
    ELSE IF StrRank(x[1]) < StrRank(Head(sorted)[1])
         THEN <<x>> \o sorted
         ELSE <<Head(sorted)>> \o InsertSorted(x, Tail(sorted))

RECURSIVE SortedPairs(_)
SortedPairs(pairs) ==
    IF pairs = <<>> THEN <<>>
    ELSE InsertSorted(pairs[Len(pairs)], SortedPairs(SubSeq(pairs, 1, Len(pairs) - 1)))

\* the values of the pairs, sorted by key
SortedByKey(pairs) == [i \in 1..Len(pairs) |-> SortedPairs(pairs)[i][2]]

----------------------------------------------------------------------------
\* The comment service: stored threads and comments

NewThread(course_id, commentable_id, group_id, thread_type, user_id, title) ==
    [ course_id |-> course_id, commentable_id |-> commentable_id,
      group_id |-> group_id, thread_type |-> thread_type, user_id |-> user_id,
      title |-> title, body |-> "text", closed |-> FALSE, pinned |-> FALSE,
      voters |-> {}, subscribers |-> {}, readers |-> {}, abuse_flaggers |-> {},
      children |-> <<>> ]

NewComment(thread_id, parent_id, user_id, raw_body) ==
    [ thread_id |-> thread_id, parent_id |-> parent_id, user_id |-> user_id,
      raw_body |-> raw_body, endorsed |-> FALSE, endorsed_by |-> None,
      voters |-> {}, abuse_flaggers |-> {}, children |-> <<>> ]

InitThreads ==
    [ t1 |-> [NewThread("cA", "w1a", "g1", "discussion", "alice", "hello")
                EXCEPT !.voters = {"bob"}, !.children = <<"r1">>],
      t2 |-> [NewThread("cA", "gen", "g2", "question", "bob", "why")
                EXCEPT !.children = <<"r2", "r3">>, !.subscribers = {"alice"}],
      t3 |-> [NewThread("cA", "w1a", None, "discussion", "carol", "hello")
                EXCEPT !.closed = TRUE, !.readers = {"carol"}],
      t4 |-> [NewThread("cB", "gen", None, "discussion", "alice", "hello")
                EXCEPT !.children = <<"r4">>],
      t5 |-> NewThread("cC", "genC", None, "question", "bob", "why") ]

InitComments ==
    [ r1 |-> [NewComment("t1", None, "bob", "a") EXCEPT !.children = <<"k1", "k2", "k3">>],
      k1 |-> NewComment("t1", "r1", "alice", "b"),
      k2 |-> [NewComment("t1", "r1", "bob", "c") EXCEPT !.voters = {"alice"}],
      k3 |-> NewComment("t1", "r1", "", "d"),
      r2 |-> [NewComment("t2", None, "alice", "e")
                EXCEPT !.endorsed = TRUE, !.endorsed_by = "mod"],
      r3 |-> NewComment("t2", None, "carol", "f"),
      r4 |-> NewComment("t4", None, "bob", "g"),
      o1 |-> NewComment("t9", None, "bob", "h") ]

\* ids a request may name: the stored ones and one that is stored nowhere
ThreadIds == DOMAIN InitThreads \cup {"t9"}
CommentIds == DOMAIN InitComments \cup {"k9"}

\* the world as a value, for the handlers to thread through their steps
World == [threads |-> threads, comments |-> comments, created |-> created]

\* every comment stored under the thread
CommentsOf(w, thread_id) == {c \in DOMAIN w.comments : w.comments[c].thread_id = thread_id}

\* Thread(id=...).retrieve(**kwargs): the thread as the service reports it
\* to user_id (None: to nobody); found = FALSE is CommentClientRequestError
Thread_retrieve(w, thread_id, user_id) ==
    IF thread_id \notin DOMAIN w.threads
    THEN [found |-> FALSE]
    ELSE LET t == w.threads[thread_id]
             seen == user_id # None /\ user_id \in t.readers
         IN  [ found |-> TRUE, id |-> thread_id, type |-> "thread",
               course_id |-> t.course_id, commentable_id |-> t.commentable_id,
               group_id |-> t.group_id, thread_type |-> t.thread_type,
               user_id |-> t.user_id, username |-> t.user_id, title |-> t.title,
               body |-> t.body, closed |-> t.closed, pinned |-> t.pinned,
               votes |-> Cardinality(t.voters),
               abuse_flaggers |-> t.abuse_flaggers,
               read |-> seen,
               unread_comments_count |->
                   IF seen THEN 0 ELSE Cardinality(CommentsOf(w, thread_id)),
               comments_count |-> Cardinality(CommentsOf(w, thread_id)),
               children |-> t.children ]

\* Comment(id=...).retrieve()
Comment_retrieve(w, comment_id) ==
    IF comment_id \notin DOMAIN w.comments
    THEN [found |-> FALSE]
    ELSE LET c == w.comments[comment_id]
         IN  [ found |-> TRUE, id |-> comment_id, type |-> "comment",
               thread_id |-> c.thread_id, parent_id |-> c.parent_id,
               user_id |-> c.user_id, username |-> c.user_id,
               raw_body |-> c.raw_body, endorsed |-> c.endorsed,
               endorsed_by |-> c.endorsed_by,
               votes |-> Cardinality(c.voters),
               abuse_flaggers |-> c.abuse_flaggers,
               children |-> c.children ]

\* the responses of a thread the service hands back: the stored comments
RECURSIVE RetrieveAll(_, _)
RetrieveAll(w, ids) ==
    IF ids = <<>> THEN <<>>
    ELSE <<Comment_retrieve(w, Head(ids))>> \o RetrieveAll(w, Tail(ids))

EndorsedIds(w, ids) == SeqFilter(ids, {c \in DOMAIN w.comments : w.comments[c].endorsed})
NonEndorsedIds(w, ids) == SeqFilter(ids, {c \in DOMAIN w.comments : ~w.comments[c].endorsed})


----------------------------------------------------------------------------
\* How a handler ends: an exception of a kind (with the fields a
\* ValidationError reports and the ids a DiscussionNotFoundError names), or a
\* response; with the calls it made, in order, and the world it leaves

Raise(kind, fields, named, trace, w) ==
    [ outcome |-> kind, fields |-> fields, named |-> named, result |-> None,
      trace |-> trace, world |-> w ]

Return(result, trace, w) ==
    [ outcome |-> "ok", fields |-> {}, named |-> <<>>, result |-> result,
      trace |-> trace, world |-> w ]

\* Python truthiness of an optional string
Truthy(x) == x # None /\ x # ""

\* the calls to the comment service
ServiceCalls ==
    { "Thread.retrieve", "Comment.retrieve", "Thread.search", "User.subscribed_threads",
      "get_course_commentable_counts",
      "Thread.save", "Comment.save", "Thread.delete", "Comment.delete",
      "User.follow", "User.unfollow", "flagAbuse", "unFlagAbuse",
      "User.vote", "User.unvote", "User.read", "Thread.pin", "Thread.un_pin" }

\* the request of this call to the comment service fails: the client raises
\* CommentClientRequestError
Fails(call) == call \in down

\* the calls of a trace that are in a given set
CallsIn(trace, S) == SeqFilter(trace, S)

----------------------------------------------------------------------------
\* 4.1 Course/Context Resolver

\* _get_course, were it not to look at the discussion tab
course_without_tab_check(course_key, user) ==
    IF ~get_course_with_access(user, course_key)
    THEN "CourseNotFoundError"
    ELSE "ok"

\* _get_course: "ok", or the error it raises
_get_course(course_key, user) ==
    IF ~get_course_with_access(user, course_key)
    THEN "CourseNotFoundError"
    ELSE IF ~(discussion_tab(course_key) # None /\ tab_is_enabled(course_key, user))
         THEN "DiscussionDisabledError"
         ELSE "ok"

\* _get_thread_and_context, were it not to compare the groups
thread_and_context_without_groups(w, user, thread_id, user_id) ==
    LET cc_thread == Thread_retrieve(w, thread_id, user_id)
    IN  IF ~cc_thread.found
        THEN [ error |-> "ThreadNotFoundError", cc_thread |-> cc_thread,
               trace |-> <<"Thread.retrieve">> ]
        ELSE LET course == _get_course(cc_thread.course_id, user)
                 trace == <<"Thread.retrieve", "_get_course">>
             IN  [ error |-> course, cc_thread |-> cc_thread, trace |-> trace ]

\* _get_thread_and_context: the thread retrieved for user_id, and "ok" or
\* the error raised
_get_thread_and_context(w, user, thread_id, user_id) ==
    LET cc_thread == IF Fails("Thread.retrieve") THEN [found |-> FALSE]
                     ELSE Thread_retrieve(w, thread_id, user_id)
    IN  IF ~cc_thread.found
        THEN [ error |-> "ThreadNotFoundError", cc_thread |-> cc_thread,
               trace |-> <<"Thread.retrieve">> ]
        ELSE LET course == _get_course(cc_thread.course_id, user)
                 trace == <<"Thread.retrieve", "_get_course">>
             IN  IF course # "ok"
                 THEN [error |-> course, cc_thread |-> cc_thread, trace |-> trace]
                 ELSE IF /\ ~is_requester_privileged(user, cc_thread.course_id)
                         /\ cc_thread.group_id # None
                         /\ is_commentable_divided(cc_thread.course_id, cc_thread.commentable_id)
                         /\ get_group_id_for_user(user) # None
                         /\ cc_thread.group_id # get_group_id_for_user(user)
                      THEN [ error |-> "ThreadNotFoundError", cc_thread |-> cc_thread,
                             trace |-> trace ]
                      ELSE [error |-> "ok", cc_thread |-> cc_thread, trace |-> trace]

\* _get_comment_and_context, were it to let the error of the client through
comment_and_context_untranslated(w, user, comment_id) ==
    LET cc_comment == IF Fails("Comment.retrieve") THEN [found |-> FALSE]
                      ELSE Comment_retrieve(w, comment_id)
    IN  IF ~cc_comment.found
        THEN [ error |-> "CommentClientRequestError", cc_comment |-> cc_comment,
               trace |-> <<"Comment.retrieve">> ]
        ELSE LET got == _get_thread_and_context(w, user, cc_comment.thread_id, None)
             IN  [ error |-> got.error, cc_comment |-> cc_comment,
                   cc_thread |-> got.cc_thread,
                   trace |-> <<"Comment.retrieve">> \o got.trace ]

\* _get_comment_and_context
_get_comment_and_context(w, user, comment_id) ==
    LET cc_comment == IF Fails("Comment.retrieve") THEN [found |-> FALSE]
                      ELSE Comment_retrieve(w, comment_id)
    IN  IF ~cc_comment.found
        THEN [ error |-> "CommentNotFoundError", cc_comment |-> cc_comment,
               trace |-> <<"Comment.retrieve">> ]
        ELSE LET got == _get_thread_and_context(w, user, cc_comment.thread_id, None)
             IN  [ error |-> got.error, cc_comment |-> cc_comment,
                   cc_thread |-> got.cc_thread,
                   trace |-> <<"Comment.retrieve">> \o got.trace ]

\* _is_user_author_or_privileged
_is_user_author_or_privileged(cc_content, user, course_key) ==
    is_requester_privileged(user, course_key) \/ user = cc_content.user_id

\* get_thread_list_url: the query it encodes
get_thread_list_url(course_key, topic_id_list, following) ==
    [course_id |-> course_key, topic_id |-> topic_id_list, following |-> following]

\* get_course._format_datetime: isoformat() with '+00:00' replaced by 'Z'
_format_datetime(dt) ==
    [t |-> dt.t, suffix |-> IF dt.offset = "+00:00" THEN "Z" ELSE dt.offset]

\* get_course
get_course(user, course_key) ==
    LET course == _get_course(course_key, user)
        blackouts == get_discussion_blackout_datetimes(course_key)
        user_roles == get_user_role_names(user, course_key)
    IN  IF course # "ok"
        THEN Raise(course, {}, <<>>, <<"_get_course">>, World)
        ELSE Return(
               [ id |-> course_key,
                 blackouts |-> [i \in 1..Len(blackouts) |->
                                  [ start |-> _format_datetime(blackouts[i].start),
                                    end |-> _format_datetime(blackouts[i].end) ]],
                 thread_list_url |-> get_thread_list_url(course_key, <<>>, FALSE),
                 following_thread_list_url |-> get_thread_list_url(course_key, <<>>, TRUE),
                 user_roles |-> user_roles,
                 user_is_privileged |-> user_roles \cap PrivilegedRoles # {} ],
               <<"_get_course">>, World)


----------------------------------------------------------------------------
\* 4.2 Topic Lister

\* thread counts that were not given (None)
NoCounts == [given |-> FALSE, discussion |-> 0, question |-> 0]

\* DiscussionTopic.__init__ and DiscussionTopicSerializer(...).data
DiscussionTopic(topic_id, name, thread_list_url, children, thread_counts) ==
    [ id |-> topic_id, name |-> name, thread_list_url |-> thread_list_url,
      children |-> children,
      thread_counts |-> IF children = <<>> /\ ~thread_counts.given
                        THEN [given |-> TRUE, discussion |-> 0, question |-> 0]
                        ELSE thread_counts ]

\* get_course_commentable_counts(course.id).get(commentable_id)
thread_counts_get(w, course_key, commentable_id) ==
    LET here(type) == { t \in DOMAIN w.threads :
                          /\ w.threads[t].course_id = course_key
                          /\ w.threads[t].commentable_id = commentable_id
                          /\ w.threads[t].thread_type = type }
    IN  IF here("discussion") \cup here("question") = {}
        THEN NoCounts
        ELSE [ given |-> TRUE, discussion |-> Cardinality(here("discussion")),
               question |-> Cardinality(here("question")) ]

\* get_courseware_topics.get_xblock_sort_key
get_xblock_sort_key(xblock) ==
    IF Truthy(xblock.sort_key) THEN xblock.sort_key ELSE xblock.discussion_target

\* get_courseware_topics.get_sorted_xblocks
get_sorted_xblocks(xblocks, category) ==
    LET in_category == SeqFilter(xblocks, {x \in Range(xblocks) : x.discussion_category = category})
    IN  SortedByKey([i \in 1..Len(in_category) |->
                       <<get_xblock_sort_key(in_category[i]), in_category[i]>>])

\* the topic tree of one category, or <<>> when the category is left out
category_topics(w, course_key, xblocks, category, topic_ids) ==
    LET sorted_xblocks == get_sorted_xblocks(xblocks, category)
        wanted == SeqFilter(sorted_xblocks,
                    {x \in Range(sorted_xblocks) : topic_ids = {} \/ x.discussion_id \in topic_ids})
        children == [i \in 1..Len(wanted) |->
                       DiscussionTopic(wanted[i].discussion_id, wanted[i].discussion_target,
                           get_thread_list_url(course_key, <<wanted[i].discussion_id>>, FALSE),
                           <<>>, thread_counts_get(w, course_key, wanted[i].discussion_id))]
    IN  IF topic_ids = {} \/ children # <<>>
        THEN << DiscussionTopic(None, category,
                    get_thread_list_url(course_key,
                        [i \in 1..Len(sorted_xblocks) |-> sorted_xblocks[i].discussion_id], FALSE),
                    children, NoCounts) >>
        ELSE <<>>

RECURSIVE courseware_trees(_, _, _, _, _)
courseware_trees(w, course_key, xblocks, categories, topic_ids) ==
    IF categories = <<>> THEN <<>>
    ELSE category_topics(w, course_key, xblocks, Head(categories), topic_ids)
         \o courseware_trees(w, course_key, xblocks, Tail(categories), topic_ids)

\* get_courseware_topics: the topic trees and the requested ids that exist
get_courseware_topics(w, user, course_key, topic_ids) ==
    LET xblocks == get_accessible_discussion_xblocks(course_key, user)
        names == SetToSeq({x.discussion_category : x \in Range(xblocks)})
        categories == SortedByKey([i \in 1..Len(names) |-> <<names[i], names[i]>>])
    IN  [ topics |-> courseware_trees(w, course_key, xblocks, categories, topic_ids),
          existing_topic_ids |->
              {x.discussion_id : x \in {y \in Range(xblocks) : y.discussion_id \in topic_ids}} ]

\* get_non_courseware_topics
get_non_courseware_topics(w, course_key, topic_ids) ==
    LET entries == discussion_topics(course_key)
        sorted_topics == SortedByKey([i \in 1..Len(entries) |->
                            << IF entries[i].sort_key # None THEN entries[i].sort_key
                               ELSE entries[i].name, entries[i] >>])
        wanted == SeqFilter(sorted_topics,
                    {e \in Range(sorted_topics) : topic_ids = {} \/ e.id \in topic_ids})
    IN  [ topics |-> [i \in 1..Len(wanted) |->
                        DiscussionTopic(wanted[i].id, wanted[i].name,
                            get_thread_list_url(course_key, <<wanted[i].id>>, FALSE),
                            <<>>, thread_counts_get(w, course_key, wanted[i].id))],
          existing_topic_ids |->
              {e.id : e \in {y \in Range(sorted_topics) : y.id \in topic_ids}} ]

\* get_course_topics, were it to look for the requested ids among the
\* courseware topics only
courseware_only_not_found(topic_ids, existing_courseware, existing_non_courseware) ==
    topic_ids \ existing_courseware

\* get_course_topics.not_found_topic_ids
not_found_ids(topic_ids, existing_courseware, existing_non_courseware) ==
    topic_ids \ (existing_courseware \cup existing_non_courseware)

\* get_course_topics; topic_ids = {} stands for no filter (None or empty)
get_course_topics(user, course_key, topic_ids) ==
    LET course == _get_course(course_key, user)
        courseware == get_courseware_topics(World, user, course_key, topic_ids)
        non_courseware == get_non_courseware_topics(World, course_key, topic_ids)
        not_found_topic_ids ==
            not_found_ids(topic_ids, courseware.existing_topic_ids,
                          non_courseware.existing_topic_ids)
        trace == <<"_get_course", "get_course_commentable_counts">>
    IN  IF course # "ok"
        THEN Raise(course, {}, <<>>, <<"_get_course">>, World)
        ELSE IF Fails("get_course_commentable_counts")
        THEN Raise("CommentClientRequestError", {}, <<>>, trace, World)
        ELSE IF topic_ids # {} /\ not_found_topic_ids # {}
             THEN Raise("DiscussionNotFoundError", {}, SetToSeq(not_found_topic_ids), trace, World)
             ELSE Return([ courseware_topics |-> courseware.topics,
                           non_courseware_topics |-> non_courseware.topics ], trace, World)


----------------------------------------------------------------------------
\* Serializers and 4.7 Response Enricher

\* ThreadSerializer(cc_thread, context).data, for the requester
ThreadSerializer_data(w, cc_thread, user) ==
    [ id |-> cc_thread.id, course_id |-> cc_thread.course_id,
      topic_id |-> cc_thread.commentable_id, group_id |-> cc_thread.group_id,
      type |-> cc_thread.thread_type, title |-> cc_thread.title,
      raw_body |-> cc_thread.body,
      author |-> IF Truthy(cc_thread.username) THEN cc_thread.username ELSE None,
      closed |-> cc_thread.closed, pinned |-> cc_thread.pinned,
      following |-> user \in w.threads[cc_thread.id].subscribers,
      abuse_flagged |-> user \in cc_thread.abuse_flaggers,
      voted |-> user \in w.threads[cc_thread.id].voters,
      vote_count |-> cc_thread.votes,
      read |-> cc_thread.read,
      unread_comment_count |-> cc_thread.unread_comments_count,
      comment_count |-> cc_thread.comments_count ]

\* CommentSerializer(cc_comment, context).data, for the requester
CommentSerializer_data(w, cc_comment, user) ==
    [ id |-> cc_comment.id, thread_id |-> cc_comment.thread_id,
      parent_id |-> cc_comment.parent_id, raw_body |-> cc_comment.raw_body,
      author |-> IF Truthy(cc_comment.username) THEN cc_comment.username ELSE None,
      endorsed |-> cc_comment.endorsed, endorsed_by |-> cc_comment.endorsed_by,
      abuse_flagged |-> user \in cc_comment.abuse_flaggers,
      voted |-> user \in w.comments[cc_comment.id].voters,
      vote_count |-> cc_comment.votes,
      child_count |-> Len(cc_comment.children) ]

\* _include_profile_image; requested_fields is a sequence (<<>> for None)
_include_profile_image(requested_fields) == "profile_image" \in Range(requested_fields)

\* _serialize_discussion_entities, were it to collect the username of every
\* entity, seen before or not
RECURSIVE usernames_with_repeats(_, _)
usernames_with_repeats(results, usernames) ==
    IF results = <<>> THEN usernames
    ELSE LET e == Head(results)
             with_author ==
                 IF Truthy(e.author) THEN Append(usernames, e.author) ELSE usernames
             with_endorser ==
                 IF "endorsed" \in DOMAIN e /\ e.endorsed /\ Truthy(e.endorsed_by)
                 THEN Append(with_author, e.endorsed_by) ELSE with_author
         IN  usernames_with_repeats(Tail(results), with_endorser)

\* the usernames _serialize_discussion_entities collects, in order, no
\* username twice
RECURSIVE collect_usernames(_, _)
collect_usernames(results, usernames) ==
    IF results = <<>> THEN usernames
    ELSE LET e == Head(results)
             with_author ==
                 IF Truthy(e.author) /\ e.author \notin Range(usernames)
                 THEN Append(usernames, e.author) ELSE usernames
             with_endorser ==
                 IF /\ "endorsed" \in DOMAIN e
                    /\ e.endorsed
                    /\ Truthy(e.endorsed_by)
                    /\ e.endorsed_by \notin Range(with_author)
                 THEN Append(with_author, e.endorsed_by) ELSE with_author
         IN  collect_usernames(Tail(results), with_endorser)

\* ','.join(usernames): the usernames with a "," between each two; the
\* string is kept as the sequence of its pieces
RECURSIVE join(_)
join(usernames) ==
    IF Len(usernames) <= 1 THEN usernames
    ELSE <<Head(usernames), ",">> \o join(Tail(usernames))

\* usernames.split(","): the strings between the commas, the pieces found so
\* far in `found`
RECURSIVE split(_, _)
split(joined, found) ==
    IF joined = <<>> THEN found
    ELSE IF Head(joined) = ","
    THEN split(Tail(joined), Append(found, ""))
    ELSE split(Tail(joined),
               [found EXCEPT ![Len(found)] = found[Len(found)] \o Head(joined)])

\* get_account_settings: the account of every username of the list
get_account_settings(username_list) ==
    [ i \in 1..Len(username_list) |->
        [username |-> username_list[i], profile_image |-> <<"image of", username_list[i]>>] ]

\* _get_user_profile_dict: the list the accounts are looked up with, and the
\* accounts by username
_get_user_profile_dict(usernames) ==
    LET username_list == IF usernames # <<>> THEN split(usernames, <<"">>) ELSE <<>>
        user_profile_details == get_account_settings(username_list)
    IN  [ username_list |-> username_list,
          dict |-> [ username \in Range(username_list) |->
                       CHOOSE user \in Range(user_profile_details) :
                           user.username = username ] ]

\* _user_profile
_user_profile(user_profile) == [profile |-> [image |-> user_profile.profile_image]]

\* _get_users: username -> profile, as a set of <<username, profile>> pairs
_get_users(is_comment, discussion_entity, username_profile_dict) ==
    (IF Truthy(discussion_entity.author)
     THEN {<<discussion_entity.author,
             _user_profile(username_profile_dict[discussion_entity.author])>>}
     ELSE {})
    \cup
    (IF is_comment /\ discussion_entity.endorsed /\ Truthy(discussion_entity.endorsed_by)
     THEN {<<discussion_entity.endorsed_by,
             _user_profile(username_profile_dict[discussion_entity.endorsed_by])>>}
     ELSE {})

\* _add_additional_response_fields: entities without a 'users' key carry
\* users.given = FALSE; lookups are the username lists the accounts were
\* looked up with
_add_additional_response_fields(results, usernames, is_comment, include_profile_image) ==
    LET looked_up == _get_user_profile_dict(join(usernames))
    IN  [ results |->
            [ i \in 1..Len(results) |->
                [ entity |-> results[i],
                  users |-> IF include_profile_image
                            THEN [ given |-> TRUE,
                                   map |-> _get_users(is_comment, results[i],
                                                      looked_up.dict) ]
                            ELSE [given |-> FALSE, map |-> {}] ] ],
          lookups |-> IF include_profile_image THEN <<looked_up.username_list>> ELSE <<>> ]

\* _serialize_discussion_entities: the results, and the account lookups made
\* (each lookup is the list of usernames asked for)
_serialize_discussion_entities(serialized, requested_fields, is_comment) ==
    LET include_profile_image == _include_profile_image(requested_fields)
        usernames == IF include_profile_image
                     THEN collect_usernames(serialized, <<>>) ELSE <<>>
    IN  _add_additional_response_fields(serialized, usernames, is_comment,
                                        include_profile_image)

\* the outcome r of a request that looked accounts up with these lists
WithLookups(r, lookups) ==
    [ outcome |-> r.outcome, fields |-> r.fields, named |-> r.named,
      result |-> r.result, trace |-> r.trace, world |-> r.world,
      lookups |-> lookups ]

\* DiscussionAPIPagination(request, page_num, num_pages, result_count)
DiscussionAPIPagination(page_num, num_pages, result_count) ==
    [ next |-> IF page_num < num_pages THEN page_num + 1 ELSE 0,
      previous |-> IF page_num > 1 THEN page_num - 1 ELSE 0,
      count |-> result_count, num_pages |-> num_pages ]


----------------------------------------------------------------------------
\* 4.3 Thread Lister

\* the order in which the service lists threads
ThreadOrder(w) == SetToSeq(DOMAIN w.threads)

\* Thread.search(query_params) and user.subscribed_threads(query_params):
\* the service filters, pages, and answers with its last page when the
\* requested page is beyond it
search_threads(w, qp, subscribed_only) ==
    LET match(t) ==
            LET thr == w.threads[t]
            IN  /\ qp.course_id = None \/ thr.course_id = qp.course_id
                /\ qp.commentable_ids = <<>> \/ thr.commentable_id \in Range(qp.commentable_ids)
                /\ qp.group_id = None \/ thr.group_id \in {None, qp.group_id}
                /\ ~Truthy(qp.text) \/ thr.title = qp.text
                /\ qp.author_id = None \/ thr.user_id = qp.author_id
                /\ qp.thread_type = None \/ thr.thread_type = qp.thread_type
                /\ ~qp.flagged \/ thr.abuse_flaggers # {}
                /\ ~qp.unread \/ qp.user_id \notin thr.readers
                /\ ~qp.unanswered
                     \/ (thr.thread_type = "question" /\ EndorsedIds(w, thr.children) = <<>>)
                /\ ~subscribed_only \/ qp.user_id \in thr.subscribers
        ids == SeqFilter(ThreadOrder(w), {t \in DOMAIN w.threads : match(t)})
        thread_count == Len(ids)
        num_pages == IF thread_count = 0 THEN 1 ELSE CeilDiv(thread_count, qp.per_page)
        page == IF qp.page > num_pages THEN num_pages ELSE qp.page
        shown == Slice(ids, qp.per_page * (page - 1), qp.per_page * page)
    IN  [ collection |-> [i \in 1..Len(shown) |-> Thread_retrieve(w, shown[i], qp.user_id)],
          page |-> page, num_pages |-> num_pages, thread_count |-> thread_count,
          corrected_text |-> None ]

\* get_thread_list, were it to leave `following` out of the count
exclusive_count_without_following(a) ==
    (IF a.topic_id_list # <<>> THEN 1 ELSE 0)
    + (IF Truthy(a.text_search) THEN 1 ELSE 0)

\* get_thread_list.exclusive_param_count
exclusive_param_count(a) ==
    (IF a.topic_id_list # <<>> THEN 1 ELSE 0)
    + (IF Truthy(a.text_search) THEN 1 ELSE 0)
    + (IF a.following THEN 1 ELSE 0)

\* get_thread_list.cc_map
cc_map == [last_activity_at |-> "activity", comment_count |-> "comments", vote_count |-> "votes"]

\* the query get_thread_list builds once the parameters are accepted
thread_list_query(user, a, author_id) ==
    [ user_id |-> user,
      group_id |-> IF is_requester_privileged(user, a.course_key) THEN None
                   ELSE get_group_id_for_user(user),
      page |-> a.page, per_page |-> a.page_size, text |-> a.text_search,
      sort_key |-> cc_map[a.order_by], author_id |-> author_id,
      flagged |-> a.flagged, thread_type |-> a.thread_type,
      count_flagged |-> a.count_flagged,
      unread |-> a.view = "unread", unanswered |-> a.view = "unanswered",
      course_id |-> IF a.following THEN None ELSE a.course_key,
      commentable_ids |-> IF a.following THEN <<>> ELSE a.topic_id_list ]

\* get_thread_list, were an author that names no user to mean no author
\* filter
unknown_author_ignored(author) == FALSE

\* get_thread_list: User.objects.get(username=author) raises DoesNotExist
author_does_not_exist(author) == UserByName(author) = None

\* get_thread_list, from the course lookup on
thread_list_body(user, a) ==
    LET course == _get_course(a.course_key, user)
        author_id == IF Truthy(a.author) THEN UserByName(a.author) ELSE None
        looked_up == IF Truthy(a.author) THEN <<"User.objects.get">> ELSE <<>>
        qp == thread_list_query(user, a, author_id)
        paginated_results == search_threads(World, qp, a.following)
        searched == <<"_get_course">> \o looked_up
                    \o <<IF a.following THEN "User.subscribed_threads" ELSE "Thread.search">>
        collection == paginated_results.collection
        serialized == _serialize_discussion_entities(
                          [i \in 1..Len(collection) |->
                              ThreadSerializer_data(World, collection[i], user)],
                          a.requested_fields, FALSE)
    IN  IF course # "ok"
        THEN Raise(course, {}, <<>>, <<"_get_course">>, World)
        ELSE IF Truthy(a.author) /\ author_does_not_exist(a.author)
        THEN Return([ results |-> <<>>, text_search_rewrite |-> None,
                      pagination |-> DiscussionAPIPagination(0, 1, 0) ],
                    <<"_get_course">> \o looked_up, World)
        ELSE IF a.count_flagged /\ ~is_requester_privileged(user, a.course_key)
        THEN Raise("PermissionDenied", {}, <<>>, <<"_get_course">> \o looked_up, World)
        ELSE IF Fails(searched[Len(searched)])
        THEN Raise("CommentClientRequestError", {}, <<>>, searched, World)
        ELSE IF paginated_results.page # a.page
        THEN Raise("PageNotFoundError", {}, <<>>, searched, World)
        ELSE WithLookups(
                 Return([ results |-> serialized.results,
                          text_search_rewrite |-> paginated_results.corrected_text,
                          pagination |-> DiscussionAPIPagination(paginated_results.page,
                                            paginated_results.num_pages,
                                            paginated_results.thread_count) ],
                        searched
                        \o [i \in 1..Len(serialized.lookups) |-> "get_account_settings"],
                        World),
                 serialized.lookups)

\* get_thread_list
get_thread_list(user, a) ==
    IF exclusive_param_count(a) > 1
    THEN Raise("ValueError", {}, <<>>, <<>>, World)
    ELSE IF a.order_by \notin DOMAIN cc_map
    THEN Raise("ValidationError", {"order_by"}, <<>>, <<>>, World)
    ELSE IF a.order_direction # "desc"
    THEN Raise("ValidationError", {"order_direction"}, <<>>, <<>>, World)
    ELSE thread_list_body(user, a)


----------------------------------------------------------------------------
\* 4.4 Comment Lister

\* get_thread
get_thread(user, thread_id, requested_fields) ==
    LET got == _get_thread_and_context(World, user, thread_id, user)
        serialized == _serialize_discussion_entities(
                          <<ThreadSerializer_data(World, got.cc_thread, user)>>,
                          requested_fields, FALSE)
    IN  IF got.error # "ok"
        THEN Raise(got.error, {}, <<>>, got.trace, World)
        ELSE WithLookups(
                 Return(serialized.results[1],
                        got.trace
                        \o [i \in 1..Len(serialized.lookups) |-> "get_account_settings"],
                        World),
                 serialized.lookups)

\* the responses get_comment_list pages over and their total, given the
\* get_comment_list, get_response_comments, were the number of pages the
\* count divided by the page size, rounded down
pages_rounded_down(count, page_size) ==
    IF count # 0 THEN count \div page_size ELSE 1

\* get_comment_list, get_response_comments: num_pages
number_of_pages(count, page_size) ==
    IF count # 0 THEN CeilDiv(count, page_size) ELSE 1

\* thread retrieved with response_skip and response_limit: the service
\* applies them to the responses of a discussion thread and to the
\* non-endorsed responses of a question thread, not to the endorsed ones
comment_list_responses(w, cc_thread, endorsed, response_skip, page_size) ==
    LET endorsed_responses == EndorsedIds(w, cc_thread.children)
        non_endorsed == NonEndorsedIds(w, cc_thread.children)
    IN  IF cc_thread.thread_type = "question"
        THEN IF endorsed = "True"
             THEN [ responses |-> Slice(endorsed_responses, response_skip,
                                        response_skip + page_size),
                    resp_total |-> Len(endorsed_responses) ]
             ELSE [ responses |-> Slice(non_endorsed, response_skip,
                                        response_skip + page_size),
                    resp_total |-> Len(non_endorsed) ]
        ELSE [ responses |-> Slice(cc_thread.children, response_skip,
                                   response_skip + page_size),
               resp_total |-> Len(cc_thread.children) ]

\* get_comment_list, were it to check `endorsed` for question threads only
endorsed_checked_for_questions_only(thread_type, endorsed) ==
    thread_type = "question" /\ endorsed = None

\* get_comment_list: the `endorsed` argument does not fit the thread type
endorsed_is_invalid(thread_type, endorsed) ==
    IF thread_type = "question" THEN endorsed = None ELSE endorsed # None

\* get_comment_list; endorsed is None, "True" or "False"
get_comment_list(user, thread_id, endorsed, page, page_size, requested_fields) ==
    LET response_skip == page_size * (page - 1)
        got == _get_thread_and_context(World, user, thread_id, user)
        cc_thread == got.cc_thread
        picked == comment_list_responses(World, cc_thread, endorsed, response_skip, page_size)
        responses == RetrieveAll(World, picked.responses)
        resp_total == picked.resp_total
        num_pages == number_of_pages(resp_total, page_size)
        serialized == _serialize_discussion_entities(
                          [i \in 1..Len(responses) |->
                              CommentSerializer_data(World, responses[i], user)],
                          requested_fields, TRUE)
    IN  IF got.error # "ok"
        THEN Raise(got.error, {}, <<>>, got.trace, World)
        ELSE IF endorsed_is_invalid(cc_thread.thread_type, endorsed)
        THEN Raise("ValidationError", {"endorsed"}, <<>>, got.trace, World)
        ELSE IF responses = <<>> /\ page # 1
        THEN Raise("PageNotFoundError", {}, <<>>, got.trace, World)
        ELSE WithLookups(
                 Return([ results |-> serialized.results,
                          pagination |-> DiscussionAPIPagination(page, num_pages, resp_total) ],
                        got.trace
                        \o [i \in 1..Len(serialized.lookups) |-> "get_account_settings"],
                        World),
                 serialized.lookups)

\* the children of the response comment_id of the thread, [] when the
\* thread has no such response
response_children(w, cc_thread, comment_id) ==
    LET thread_responses ==
            IF cc_thread.thread_type = "question"
            THEN EndorsedIds(w, cc_thread.children) \o NonEndorsedIds(w, cc_thread.children)
            ELSE cc_thread.children
    IN  IF comment_id \in Range(thread_responses)
        THEN w.comments[comment_id].children
        ELSE <<>>

\* get_response_comments, were the comments skipped those up to the page
\* asked for, that page included
page_after(response_comments, page, page_size) ==
    Slice(response_comments, page_size * page, page_size * page + page_size)

\* get_response_comments: response_comments[response_skip:(response_skip +
\* page_size)]
page_of_comments(response_comments, page, page_size) ==
    LET response_skip == page_size * (page - 1)
    IN  Slice(response_comments, response_skip, response_skip + page_size)

\* get_response_comments
get_response_comments(user, comment_id, page, page_size, requested_fields) ==
    LET cc_comment == IF Fails("Comment.retrieve") THEN [found |-> FALSE]
                      ELSE Comment_retrieve(World, comment_id)
        got == _get_thread_and_context(World, user, cc_comment.thread_id, None)
        trace == <<"Comment.retrieve">> \o got.trace
        response_comments == response_children(World, got.cc_thread, comment_id)
        paged_response_comments ==
            RetrieveAll(World, page_of_comments(response_comments, page, page_size))
        serialized == _serialize_discussion_entities(
                          [i \in 1..Len(paged_response_comments) |->
                              CommentSerializer_data(World, paged_response_comments[i], user)],
                          requested_fields, TRUE)
        comments_count == Len(response_comments)
        num_pages == number_of_pages(comments_count, page_size)
    IN  IF ~cc_comment.found
        THEN Raise("CommentNotFoundError", {}, <<>>, <<"Comment.retrieve">>, World)
        ELSE IF got.error # "ok"
        THEN Raise(got.error, {}, <<>>, trace, World)
        ELSE IF paged_response_comments = <<>> /\ page # 1
        THEN Raise("PageNotFoundError", {}, <<>>, trace, World)
        ELSE WithLookups(
                 Return([ results |-> serialized.results,
                          pagination |-> DiscussionAPIPagination(page, num_pages,
                                                                 comments_count) ],
                        trace \o [i \in 1..Len(serialized.lookups) |-> "get_account_settings"],
                        World),
                 serialized.lookups)


----------------------------------------------------------------------------
\* Permissions and forms

\* dict.get(key): the value, None when the key is absent
Get(data, key) == IF key \in DOMAIN data THEN data[key] ELSE None

\* the fields of ThreadActionsForm and of CommentActionsForm, in form order
ThreadActionFields == <<"following", "voted", "abuse_flagged", "read", "pinned">>
CommentActionFields == <<"voted", "abuse_flagged">>

\* actions_form.cleaned_data[field]: an absent flag is cleaned to False
cleaned_data(data, field) == IF field \in DOMAIN data THEN data[field] ELSE FALSE

\* get_initializable_thread_fields(context)
get_initializable_thread_fields(user, course_key) ==
    { "abuse_flagged", "course_id", "following", "raw_body", "read", "title",
      "topic_id", "type", "voted" }
    \cup (IF is_requester_privileged(user, course_key) THEN {"group_id"} ELSE {})

\* get_initializable_comment_fields(context)
get_initializable_comment_fields(user, cc_thread) ==
    {"abuse_flagged", "parent_id", "raw_body", "thread_id", "voted"}
    \cup (IF _is_user_author_or_privileged(cc_thread, user, cc_thread.course_id)
          THEN {"endorsed"} ELSE {})

\* get_editable_fields(cc_content, context)
get_editable_fields(cc_content, cc_thread, user) ==
    LET privileged == is_requester_privileged(user, cc_thread.course_id)
        own == _is_user_author_or_privileged(cc_content, user, cc_thread.course_id)
    IN  {"abuse_flagged", "voted"}
        \cup (IF own THEN {"raw_body"} ELSE {})
        \cup (IF cc_content.type = "thread"
              THEN {"following", "read"}
                   \cup (IF own THEN {"title", "topic_id", "type"} ELSE {})
                   \cup (IF privileged THEN {"closed", "pinned", "group_id"} ELSE {})
              ELSE IF _is_user_author_or_privileged(cc_thread, user, cc_thread.course_id)
                   THEN {"endorsed"} ELSE {})

\* can_delete(cc_content, context)
can_delete(cc_content, user, course_key) ==
    _is_user_author_or_privileged(cc_content, user, course_key)

\* _check_fields, were it to let every field pass
no_field_refused(allowed_fields, data) == {}

\* _check_fields: the fields of data that are not allowed
_check_fields(allowed_fields, data) == {field \in DOMAIN data : field \notin allowed_fields}

\* actions_form.errors: the action fields given a value that is no boolean
ActionsForm_errors(fields, data) ==
    {f \in Range(fields) \cap DOMAIN data : ToString(data[f]) \notin {"TRUE", "FALSE"}}

\* the report of a failed validation, were it the serializer's alone when
\* the serializer rejects a field
serializer_errors_first(serializer_errors, form_errors) ==
    IF serializer_errors # {} THEN serializer_errors ELSE form_errors

\* dict(list(serializer.errors.items()) + list(actions_form.errors.items()))
validation_errors(serializer_errors, form_errors) == serializer_errors \cup form_errors

\* the fields ThreadSerializer rejects; partial = TRUE for an update
ThreadSerializer_errors(data, partial) ==
    {f \in {"topic_id", "type", "title", "raw_body"} : ~partial /\ f \notin DOMAIN data}
    \cup {f \in {"title", "raw_body", "topic_id"} \cap DOMAIN data : data[f] = ""}
    \cup {f \in {"type"} \cap DOMAIN data : data[f] \notin {"discussion", "question"}}

\* the fields CommentSerializer rejects
CommentSerializer_errors(w, data, partial) ==
    {f \in {"raw_body"} : ~partial /\ f \notin DOMAIN data}
    \cup {f \in {"raw_body"} \cap DOMAIN data : data[f] = ""}
    \cup {f \in {"parent_id"} \cap DOMAIN data :
            \/ data[f] \notin DOMAIN w.comments
            \/ w.comments[data[f]].thread_id # Get(data, "thread_id")}

----------------------------------------------------------------------------
\* 4.6 Extra-Action Dispatcher

\* the stored item behind cc_content, with field f set to v
SetField(w, cc_content, f, v) ==
    IF cc_content.type = "thread"
    THEN [w EXCEPT !.threads[cc_content.id][f] = v]
    ELSE [w EXCEPT !.comments[cc_content.id][f] = v]

Stored(w, cc_content) ==
    IF cc_content.type = "thread" THEN w.threads[cc_content.id]
    ELSE w.comments[cc_content.id]

\* the call of an extra action fails: the actions stop there
Failed(acc, call) == [acc EXCEPT !.failed = TRUE, !.trace = Append(acc.trace, call)]

\* _handle_following_field
_handle_following_field(form_value, user, cc_content, acc) ==
    IF Fails(IF form_value THEN "User.follow" ELSE "User.unfollow")
    THEN Failed(acc, IF form_value THEN "User.follow" ELSE "User.unfollow") ELSE
    [ acc EXCEPT
        !.w = SetField(acc.w, cc_content, "subscribers",
                IF form_value THEN Stored(acc.w, cc_content).subscribers \cup {user}
                ELSE Stored(acc.w, cc_content).subscribers \ {user}),
        !.trace = Append(acc.trace, IF form_value THEN "User.follow" ELSE "User.unfollow") ]

\* _handle_abuse_flagged_field
_handle_abuse_flagged_field(form_value, user, cc_content, acc) ==
    IF Fails(IF form_value THEN "flagAbuse" ELSE "unFlagAbuse")
    THEN Failed(acc, IF form_value THEN "flagAbuse" ELSE "unFlagAbuse") ELSE
    [ acc EXCEPT
        !.w = SetField(acc.w, cc_content, "abuse_flaggers",
                IF form_value THEN Stored(acc.w, cc_content).abuse_flaggers \cup {user}
                ELSE Stored(acc.w, cc_content).abuse_flaggers \ {user}),
        !.trace = Append(acc.trace, IF form_value THEN "flagAbuse" ELSE "unFlagAbuse") ]

\* _handle_voted_field, were the count to go up on either value
handle_voted_always_up(form_value, user, cc_content, acc) ==
    [ acc EXCEPT
        !.w = SetField(acc.w, cc_content, "voters",
                IF form_value THEN Stored(acc.w, cc_content).voters \cup {user}
                ELSE Stored(acc.w, cc_content).voters \ {user}),
        !.api.vote_count = acc.api.vote_count + 1,
        !.trace = acc.trace
                  \o << IF cc_content.type = "thread" THEN "thread_voted" ELSE "comment_voted",
                        IF form_value THEN "User.vote" ELSE "User.unvote",
                        "track_voted_event" >> ]

\* _handle_voted_field
_handle_voted_field(form_value, user, cc_content, acc) ==
    IF Fails(IF form_value THEN "User.vote" ELSE "User.unvote")
    THEN Failed([acc EXCEPT !.trace = Append(acc.trace,
                    IF cc_content.type = "thread" THEN "thread_voted" ELSE "comment_voted")],
                IF form_value THEN "User.vote" ELSE "User.unvote") ELSE
    [ acc EXCEPT
        !.w = SetField(acc.w, cc_content, "voters",
                IF form_value THEN Stored(acc.w, cc_content).voters \cup {user}
                ELSE Stored(acc.w, cc_content).voters \ {user}),
        !.api.vote_count = IF form_value THEN acc.api.vote_count + 1
                           ELSE acc.api.vote_count - 1,
        !.trace = acc.trace
                  \o << IF cc_content.type = "thread" THEN "thread_voted" ELSE "comment_voted",
                        IF form_value THEN "User.vote" ELSE "User.unvote",
                        "track_voted_event" >> ]

\* _handle_read_field
_handle_read_field(form_value, user, cc_content, acc) ==
    IF form_value /\ ~cc_content.read /\ Fails("User.read")
    THEN Failed(acc, "User.read")
    ELSE IF form_value /\ ~cc_content.read
    THEN [ acc EXCEPT
             !.w = SetField(acc.w, cc_content, "readers",
                            Stored(acc.w, cc_content).readers \cup {user}),
             !.api.unread_comment_count = 0,
             !.trace = Append(acc.trace, "User.read") ]
    ELSE acc

\* _handle_pinned_field
_handle_pinned_field(pin_thread, user, cc_content, acc) ==
    IF Fails(IF pin_thread THEN "Thread.pin" ELSE "Thread.un_pin")
    THEN Failed(acc, IF pin_thread THEN "Thread.pin" ELSE "Thread.un_pin") ELSE
    [ acc EXCEPT
        !.w = SetField(acc.w, cc_content, "pinned", pin_thread),
        !.trace = Append(acc.trace, IF pin_thread THEN "Thread.pin" ELSE "Thread.un_pin") ]

\* _do_extra_actions, were it to act on every action field the request holds
RECURSIVE extra_actions_whenever_given(_, _, _, _, _)
extra_actions_whenever_given(acc, cc_content, fields, data, user) ==
    IF fields = <<>> \/ acc.failed THEN acc
    ELSE LET field == Head(fields)
             form_value == cleaned_data(data, field)
             set == [acc EXCEPT !.api[field] = form_value]
             done ==
                 IF field \in DOMAIN data
                 THEN CASE field = "following" ->
                               _handle_following_field(form_value, user, cc_content, set)
                        [] field = "abuse_flagged" ->
                               _handle_abuse_flagged_field(form_value, user, cc_content, set)
                        [] field = "voted" ->
                               _handle_voted_field(form_value, user, cc_content, set)
                        [] field = "read" ->
                               _handle_read_field(form_value, user, cc_content, set)
                        [] field = "pinned" ->
                               _handle_pinned_field(form_value, user, cc_content, set)
                 ELSE acc
         IN  extra_actions_whenever_given(done, cc_content, Tail(fields), data, user)

\* _do_extra_actions over the form's fields; acc holds the response being
\* built (api), the world (w) and the calls made (trace)
RECURSIVE _do_extra_actions(_, _, _, _, _)
_do_extra_actions(acc, cc_content, fields, data, user) ==
    IF fields = <<>> \/ acc.failed THEN acc
    ELSE LET field == Head(fields)
             form_value == cleaned_data(data, field)
             set == [acc EXCEPT !.api[field] = form_value]
             done ==
                 IF field \in DOMAIN data /\ form_value # acc.api[field]
                 THEN CASE field = "following" ->
                               _handle_following_field(form_value, user, cc_content, set)
                        [] field = "abuse_flagged" ->
                               _handle_abuse_flagged_field(form_value, user, cc_content, set)
                        [] field = "voted" ->
                               _handle_voted_field(form_value, user, cc_content, set)
                        [] field = "read" ->
                               _handle_read_field(form_value, user, cc_content, set)
                        [] field = "pinned" ->
                               _handle_pinned_field(form_value, user, cc_content, set)
                 ELSE acc
         IN  _do_extra_actions(done, cc_content, Tail(fields), data, user)

----------------------------------------------------------------------------
\* 4.5 Mutation Handlers

\* a handler's end, with what the caller's mapping holds after the call
WithCallerData(r, caller_data) ==
    [ outcome |-> r.outcome, fields |-> r.fields, named |-> r.named,
      result |-> r.result, trace |-> r.trace, world |-> r.world,
      caller_data |-> caller_data ]

\* the id the service gives to the next item it creates
NewId(w) == "n" \o ToString(w.created + 1)

\* ThreadSerializer.create and save: the new thread is stored
ThreadSerializer_create(w, user, data) ==
    [ w EXCEPT
        !.threads = w.threads @@
            (NewId(w) :> [ NewThread(data.course_id, data.topic_id, Get(data, "group_id"),
                                     data.type, user, data.title)
                           EXCEPT !.body = data.raw_body ]),
        !.created = w.created + 1 ]

\* ThreadSerializer.update and save: the core fields given are stored
ThreadSerializer_update(w, thread_id, data) ==
    LET old == w.threads[thread_id]
        new == [ old EXCEPT
                   !.title = IF "title" \in DOMAIN data THEN data.title ELSE old.title,
                   !.body = IF "raw_body" \in DOMAIN data THEN data.raw_body ELSE old.body,
                   !.commentable_id = IF "topic_id" \in DOMAIN data THEN data.topic_id
                                      ELSE old.commentable_id,
                   !.thread_type = IF "type" \in DOMAIN data THEN data.type
                                   ELSE old.thread_type,
                   !.group_id = IF "group_id" \in DOMAIN data THEN data.group_id
                                ELSE old.group_id,
                   !.closed = IF "closed" \in DOMAIN data THEN data.closed ELSE old.closed ]
    IN  [w EXCEPT !.threads[thread_id] = new]

\* CommentSerializer.create and save: the new comment is stored, under its
\* parent or as a response of its thread
CommentSerializer_create(w, user, data) ==
    LET parent_id == Get(data, "parent_id")
        new == [ NewComment(data.thread_id, parent_id, user, data.raw_body)
                 EXCEPT !.endorsed = IF "endorsed" \in DOMAIN data THEN data.endorsed ELSE FALSE,
                        !.endorsed_by = IF "endorsed" \in DOMAIN data /\ data.endorsed
                                        THEN user ELSE None ]
        stored == [ w EXCEPT !.comments = w.comments @@ (NewId(w) :> new),
                             !.created = w.created + 1 ]
    IN  IF parent_id = None
        THEN [ stored EXCEPT !.threads[data.thread_id].children =
                                 Append(w.threads[data.thread_id].children, NewId(w)) ]
        ELSE [ stored EXCEPT !.comments[parent_id].children =
                                 Append(w.comments[parent_id].children, NewId(w)) ]

\* CommentSerializer.update and save
CommentSerializer_update(w, user, comment_id, data) ==
    LET old == w.comments[comment_id]
        new == [ old EXCEPT
                   !.raw_body = IF "raw_body" \in DOMAIN data THEN data.raw_body
                                ELSE old.raw_body,
                   !.endorsed = IF "endorsed" \in DOMAIN data THEN data.endorsed
                                ELSE old.endorsed,
                   !.endorsed_by = IF "endorsed" \in DOMAIN data
                                   THEN (IF data.endorsed THEN user ELSE None)
                                   ELSE old.endorsed_by ]
    IN  [w EXCEPT !.comments[comment_id] = new]

\* create_thread, were it to set group_id in the caller's mapping
assign_group_id_in_place(user, course_key, thread_data) ==
    IF /\ "group_id" \notin DOMAIN thread_data
       /\ is_commentable_divided(course_key, Get(thread_data, "topic_id"))
    THEN [ thread_data |-> thread_data @@ [group_id |-> get_group_id_for_user(user)],
           caller_data |-> thread_data @@ [group_id |-> get_group_id_for_user(user)] ]
    ELSE [thread_data |-> thread_data, caller_data |-> thread_data]

\* create_thread: the thread of a divided topic gets the requester's group,
\* in a copy of the mapping; thread_data is the mapping used from here on,
\* caller_data what the caller's mapping then holds
assign_group_id(user, course_key, thread_data) ==
    IF /\ "group_id" \notin DOMAIN thread_data
       /\ is_commentable_divided(course_key, Get(thread_data, "topic_id"))
    THEN [ thread_data |-> thread_data @@ [group_id |-> get_group_id_for_user(user)],
           caller_data |-> thread_data ]
    ELSE [thread_data |-> thread_data, caller_data |-> thread_data]

\* create_thread, were it to send thread_created before it saves the thread
create_thread_signal_first(user, course_key, thread_data) ==
    LET saved == ThreadSerializer_create(World, user, thread_data)
        cc_thread == Thread_retrieve(saved, NewId(World), None)
        acc == _do_extra_actions(
                   [ api |-> ThreadSerializer_data(saved, cc_thread, user), w |-> saved,
                     failed |-> FALSE,
                     trace |-> <<"_get_course", "thread_created", "Thread.save">> ],
                   cc_thread, ThreadActionFields, thread_data, user)
    IN  IF Fails("Thread.save")
        THEN Raise("CommentClientRequestError", {}, <<>>,
                   <<"_get_course", "thread_created", "Thread.save">>, World)
        ELSE IF acc.failed
        THEN Raise("CommentClientRequestError", {}, <<>>, acc.trace, acc.w)
        ELSE Return(acc.api, Append(acc.trace, "track_thread_created_event"), acc.w)

\* create_thread, once the thread data is found valid
create_thread_save(user, course_key, thread_data) ==
    LET saved == ThreadSerializer_create(World, user, thread_data)
        cc_thread == Thread_retrieve(saved, NewId(World), None)
        acc == _do_extra_actions(
                   [ api |-> ThreadSerializer_data(saved, cc_thread, user), w |-> saved,
                     failed |-> FALSE,
                     trace |-> <<"_get_course", "Thread.save", "thread_created">> ],
                   cc_thread, ThreadActionFields, thread_data, user)
    IN  IF Fails("Thread.save")
        THEN Raise("CommentClientRequestError", {}, <<>>, <<"_get_course", "Thread.save">>,
                   World)
        ELSE IF acc.failed
        THEN Raise("CommentClientRequestError", {}, <<>>, acc.trace, acc.w)
        ELSE Return(acc.api, Append(acc.trace, "track_thread_created_event"), acc.w)

\* create_thread
create_thread(user, thread_data) ==
    LET course_id == Get(thread_data, "course_id")
        course == _get_course(course_id, user)
        not_initializable ==
            _check_fields(get_initializable_thread_fields(user, course_id), thread_data)
        assigned == assign_group_id(user, course_id, thread_data)
        errors == validation_errors(ThreadSerializer_errors(assigned.thread_data, FALSE),
                                    ActionsForm_errors(ThreadActionFields, assigned.thread_data))
    IN  IF ~Truthy(course_id)
        THEN WithCallerData(Raise("ValidationError", {"course_id"}, <<>>, <<>>, World),
                            thread_data)
        ELSE IF ~ValidCourseKey(course_id)
        THEN WithCallerData(Raise("ValidationError", {"course_id"}, <<>>, <<>>, World),
                            thread_data)
        ELSE IF course # "ok"
        THEN WithCallerData(Raise(course, {}, <<>>, <<"_get_course">>, World), thread_data)
        ELSE IF ~discussion_open_for_user(course_id, user)
        THEN WithCallerData(Raise("DiscussionBlackOutException", {}, <<>>,
                                  <<"_get_course">>, World), thread_data)
        ELSE IF not_initializable # {}
        THEN WithCallerData(Raise("ValidationError", not_initializable, <<>>,
                                  <<"_get_course">>, World), thread_data)
        ELSE IF errors # {}
        THEN WithCallerData(Raise("ValidationError", errors, <<>>, <<"_get_course">>, World),
                            assigned.caller_data)
        ELSE WithCallerData(create_thread_save(user, course_id, assigned.thread_data),
                            assigned.caller_data)

\* create_comment, were it to take every thread as open
never_closed(cc_thread) == FALSE

\* create_comment: cc_thread["closed"]
thread_is_closed(cc_thread) == cc_thread.closed

\* create_comment
create_comment(user, comment_data) ==
    LET thread_id == Get(comment_data, "thread_id")
        got == _get_thread_and_context(World, user, thread_id, None)
        cc_thread == got.cc_thread
        not_initializable ==
            _check_fields(get_initializable_comment_fields(user, cc_thread), comment_data)
        errors == validation_errors(CommentSerializer_errors(World, comment_data, FALSE),
                                    ActionsForm_errors(CommentActionFields, comment_data))
        saved == CommentSerializer_create(World, user, comment_data)
        cc_comment == Comment_retrieve(saved, NewId(World))
        acc == _do_extra_actions(
                   [ api |-> CommentSerializer_data(saved, cc_comment, user), w |-> saved,
                     failed |-> FALSE,
                     trace |-> got.trace \o <<"Comment.save", "comment_created">> ],
                   cc_comment, CommentActionFields, comment_data, user)
    IN  IF ~Truthy(thread_id)
        THEN Raise("ValidationError", {"thread_id"}, <<>>, <<>>, World)
        ELSE IF got.error # "ok"
        THEN Raise(got.error, {}, <<>>, got.trace, World)
        ELSE IF ~discussion_open_for_user(cc_thread.course_id, user)
        THEN Raise("DiscussionBlackOutException", {}, <<>>, got.trace, World)
        ELSE IF thread_is_closed(cc_thread)
        THEN Raise("PermissionDenied", {}, <<>>, got.trace, World)
        ELSE IF not_initializable # {}
        THEN Raise("ValidationError", not_initializable, <<>>, got.trace, World)
        ELSE IF errors # {}
        THEN Raise("ValidationError", errors, <<>>, got.trace, World)
        ELSE IF Fails("Comment.save")
        THEN Raise("CommentClientRequestError", {}, <<>>, Append(got.trace, "Comment.save"),
                   World)
        ELSE IF acc.failed
        THEN Raise("CommentClientRequestError", {}, <<>>, acc.trace, acc.w)
        ELSE Return(acc.api, Append(acc.trace, "track_comment_created_event"), acc.w)

\* update_thread, update_comment, were they to save whatever the data holds
save_always(update_data, action_fields) == TRUE

\* update_thread, update_comment: set(update_data) - set(actions_form.fields)
core_fields_given(update_data, action_fields) ==
    DOMAIN update_data \ Range(action_fields) # {}

\* update_thread, were it to return the thread as the extra actions leave it
leave_read_as_is(api_thread) == api_thread

\* update_thread: the thread is returned as read, with no unread comment
mark_as_read(api_thread) ==
    [api_thread EXCEPT !.read = TRUE, !.unread_comment_count = 0]

\* update_thread
update_thread(user, thread_id, update_data) ==
    LET got == _get_thread_and_context(World, user, thread_id, None)
        not_editable ==
            _check_fields(get_editable_fields(got.cc_thread, got.cc_thread, user), update_data)
        errors == validation_errors(ThreadSerializer_errors(update_data, TRUE),
                                    ActionsForm_errors(ThreadActionFields, update_data))
        edited == core_fields_given(update_data, ThreadActionFields)
        saved == IF edited THEN ThreadSerializer_update(World, thread_id, update_data)
                 ELSE World
        cc_thread == Thread_retrieve(saved, thread_id, None)
        acc == _do_extra_actions(
                   [ api |-> ThreadSerializer_data(saved, cc_thread, user), w |-> saved,
                     failed |-> FALSE,
                     trace |-> got.trace
                               \o (IF edited THEN <<"Thread.save", "thread_edited">> ELSE <<>>) ],
                   cc_thread, ThreadActionFields, update_data, user)
    IN  IF got.error # "ok"
        THEN Raise(got.error, {}, <<>>, got.trace, World)
        ELSE IF not_editable # {}
        THEN Raise("ValidationError", not_editable, <<>>, got.trace, World)
        ELSE IF errors # {}
        THEN Raise("ValidationError", errors, <<>>, got.trace, World)
        ELSE IF edited /\ Fails("Thread.save")
        THEN Raise("CommentClientRequestError", {}, <<>>, Append(got.trace, "Thread.save"),
                   World)
        ELSE IF acc.failed
        THEN Raise("CommentClientRequestError", {}, <<>>, acc.trace, acc.w)
        ELSE Return(mark_as_read(acc.api), acc.trace, acc.w)

\* update_comment
update_comment(user, comment_id, update_data) ==
    LET got == _get_comment_and_context(World, user, comment_id)
        not_editable ==
            _check_fields(get_editable_fields(got.cc_comment, got.cc_thread, user), update_data)
        errors == validation_errors(CommentSerializer_errors(World, update_data, TRUE),
                                    ActionsForm_errors(CommentActionFields, update_data))
        edited == core_fields_given(update_data, CommentActionFields)
        saved == IF edited THEN CommentSerializer_update(World, user, comment_id, update_data)
                 ELSE World
        cc_comment == Comment_retrieve(saved, comment_id)
        acc == _do_extra_actions(
                   [ api |-> CommentSerializer_data(saved, cc_comment, user), w |-> saved,
                     failed |-> FALSE,
                     trace |-> got.trace
                               \o (IF edited THEN <<"Comment.save", "comment_edited">> ELSE <<>>) ],
                   cc_comment, CommentActionFields, update_data, user)
    IN  IF got.error # "ok"
        THEN Raise(got.error, {}, <<>>, got.trace, World)
        ELSE IF not_editable # {}
        THEN Raise("ValidationError", not_editable, <<>>, got.trace, World)
        ELSE IF errors # {}
        THEN Raise("ValidationError", errors, <<>>, got.trace, World)
        ELSE IF edited /\ Fails("Comment.save")
        THEN Raise("CommentClientRequestError", {}, <<>>, Append(got.trace, "Comment.save"),
                   World)
        ELSE IF acc.failed
        THEN Raise("CommentClientRequestError", {}, <<>>, acc.trace, acc.w)
        ELSE Return(acc.api, acc.trace, acc.w)

\* every comment stored under comment_id, itself included
RECURSIVE Subtree(_, _)
Subtree(w, comment_id) ==
    {comment_id} \cup UNION {Subtree(w, c) : c \in Range(w.comments[comment_id].children)}

\* a function without the keys in gone
Without(f, gone) == [k \in DOMAIN f \ gone |-> f[k]]

\* cc_thread.delete(): the thread goes, with its comments
Thread_delete(w, thread_id) ==
    [ w EXCEPT !.threads = Without(w.threads, {thread_id}),
               !.comments = Without(w.comments, CommentsOf(w, thread_id)) ]

\* cc_comment.delete(): the comment goes, with the comments under it
Comment_delete(w, comment_id) ==
    LET gone == Subtree(w, comment_id)
        keep == DOMAIN w.comments \ gone
    IN  [ w EXCEPT
            !.comments = [c \in keep |->
                            [w.comments[c] EXCEPT !.children = SeqFilter(@, keep)]],
            !.threads = [t \in DOMAIN w.threads |->
                            [w.threads[t] EXCEPT !.children = SeqFilter(@, keep)]] ]

\* delete_thread, were it not to ask for the permission
delete_thread_without_permission(user, thread_id) ==
    LET got == _get_thread_and_context(World, user, thread_id, None)
    IN  IF got.error # "ok"
        THEN Raise(got.error, {}, <<>>, got.trace, World)
        ELSE Return(None, got.trace \o <<"Thread.delete", "thread_deleted">>,
                    Thread_delete(World, thread_id))

\* delete_thread
delete_thread(user, thread_id) ==
    LET got == _get_thread_and_context(World, user, thread_id, None)
    IN  IF got.error # "ok"
        THEN Raise(got.error, {}, <<>>, got.trace, World)
        ELSE IF ~can_delete(got.cc_thread, user, got.cc_thread.course_id)
        THEN Raise("PermissionDenied", {}, <<>>, got.trace, World)
        ELSE IF Fails("Thread.delete")
        THEN Raise("CommentClientRequestError", {}, <<>>, Append(got.trace, "Thread.delete"),
                   World)
        ELSE Return(None, got.trace \o <<"Thread.delete", "thread_deleted">>,
                    Thread_delete(World, thread_id))

\* delete_comment
delete_comment(user, comment_id) ==
    LET got == _get_comment_and_context(World, user, comment_id)
    IN  IF got.error # "ok"
        THEN Raise(got.error, {}, <<>>, got.trace, World)
        ELSE IF ~can_delete(got.cc_comment, user, got.cc_thread.course_id)
        THEN Raise("PermissionDenied", {}, <<>>, got.trace, World)
        ELSE IF Fails("Comment.delete")
        THEN Raise("CommentClientRequestError", {}, <<>>, Append(got.trace, "Comment.delete"),
                   World)
        ELSE Return(None, got.trace \o <<"Comment.delete", "comment_deleted">>,
                    Comment_delete(World, comment_id))

----------------------------------------------------------------------------
\* The state machine: one action per entry function

\* no update call was made right before
NoUpdate == [op |-> "none"]

\* no request is being handled
Idle == [ op |-> "none", user |-> None, args |-> None, outcome |-> "none",
          fields |-> {}, named |-> <<>>, result |-> None, trace |-> <<>>,
          changed |-> FALSE, caller_data |-> None, before |-> None,
          target |-> None, item |-> None, lookups |-> <<>> ]

Init ==
    /\ threads = InitThreads
    /\ comments = InitComments
    /\ created = 0
    /\ writes = 0
    /\ blackout \in BOOLEAN
    /\ down = {}
    /\ last = Idle
    /\ prev = NoUpdate

\* what the requester sees of the votes of the item an update is for, before
\* the update
VotesBefore(op, user, args) ==
    IF op = "update_thread" /\ args.thread_id \in DOMAIN threads
    THEN [ vote_count |-> Cardinality(threads[args.thread_id].voters),
           voted |-> user \in threads[args.thread_id].voters ]
    ELSE IF op = "update_comment" /\ args.comment_id \in DOMAIN comments
    THEN [ vote_count |-> Cardinality(comments[args.comment_id].voters),
           voted |-> user \in comments[args.comment_id].voters ]
    ELSE None

\* the item an update or a delete is for, as stored before the call
ItemBefore(op, args) ==
    IF op \in {"update_thread", "delete_thread"} /\ args.thread_id \in DOMAIN threads
    THEN threads[args.thread_id]
    ELSE IF op \in {"update_comment", "delete_comment"} /\ args.comment_id \in DOMAIN comments
    THEN comments[args.comment_id]
    ELSE None

\* the stored thread a request is about (None when it names none that is
\* stored), with its group and topic, and the course the request is about
Target(op, args) ==
    LET thread_id ==
            CASE op \in {"get_thread", "get_comment_list", "update_thread", "delete_thread"} ->
                     args.thread_id
              [] op = "create_comment" -> Get(args.comment_data, "thread_id")
              [] op \in {"get_response_comments", "update_comment", "delete_comment"} ->
                     IF args.comment_id \in DOMAIN comments
                     THEN comments[args.comment_id].thread_id ELSE None
              [] OTHER -> None
        stored == thread_id \in DOMAIN threads
    IN  [ thread |-> IF stored THEN thread_id ELSE None,
          author |-> IF ~stored THEN None
                     ELSE IF op \in {"update_comment", "delete_comment"}
                     THEN comments[args.comment_id].user_id
                     ELSE threads[thread_id].user_id,
          group_id |-> IF stored THEN threads[thread_id].group_id ELSE None,
          commentable_id |-> IF stored THEN threads[thread_id].commentable_id ELSE None,
          course |-> CASE op \in {"get_course", "get_course_topics", "get_thread_list"} ->
                              args.course_key
                       [] op = "create_thread" -> Get(args.thread_data, "course_id")
                       [] OTHER -> IF stored THEN threads[thread_id].course_id ELSE None ]

\* the request op(args) by user is handled and ends as r: the outcome goes
\* to `last`, the world becomes the one the handler leaves
Call(op, user, args, r) ==
    /\ last' = [ op |-> op, user |-> user, args |-> args, outcome |-> r.outcome,
                 fields |-> r.fields, named |-> r.named, result |-> r.result,
                 trace |-> r.trace, changed |-> r.world # World,
                 caller_data |-> IF "caller_data" \in DOMAIN r THEN r.caller_data ELSE None,
                 before |-> VotesBefore(op, user, args),
                 target |-> Target(op, args),
                 item |-> ItemBefore(op, args),
                 lookups |-> IF "lookups" \in DOMAIN r THEN r.lookups ELSE <<>> ]
    /\ threads' = r.world.threads
    /\ comments' = r.world.comments
    /\ created' = r.world.created
    /\ writes' = IF r.world = World THEN writes ELSE writes + 1
    /\ UNCHANGED <<blackout, down, prev>>

GetCourse(CourseKeys) ==
    /\ last = Idle
    /\ \E user \in Users, course_key \in CourseKeys :
           Call("get_course", user, [course_key |-> course_key],
                get_course(user, course_key))

GetCourseTopics(CourseKeys, TopicIdSets) ==
    /\ last = Idle
    /\ \E user \in Users, course_key \in CourseKeys, topic_ids \in TopicIdSets :
           Call("get_course_topics", user,
                [course_key |-> course_key, topic_ids |-> topic_ids],
                get_course_topics(user, course_key, topic_ids))

GetThreadList(Args) ==
    /\ last = Idle
    /\ \E user \in Users, a \in Args :
           Call("get_thread_list", user, a, get_thread_list(user, a))

GetThread(Ids, Fields) ==
    /\ last = Idle
    /\ \E user \in Users, thread_id \in Ids, requested_fields \in Fields :
           Call("get_thread", user,
                [thread_id |-> thread_id, requested_fields |-> requested_fields],
                get_thread(user, thread_id, requested_fields))

GetCommentList(Ids, Pages, PageSizes, Fields) ==
    /\ last = Idle
    /\ \E user \in Users, thread_id \in Ids, endorsed \in {None, "True", "False"},
          page \in Pages, page_size \in PageSizes, requested_fields \in Fields :
           Call("get_comment_list", user,
                [ thread_id |-> thread_id, endorsed |-> endorsed, page |-> page,
                  page_size |-> page_size, requested_fields |-> requested_fields ],
                get_comment_list(user, thread_id, endorsed, page, page_size,
                                 requested_fields))

GetResponseComments(Ids, Pages, PageSizes, Fields) ==
    /\ last = Idle
    /\ \E user \in Users, comment_id \in Ids, page \in Pages, page_size \in PageSizes,
          requested_fields \in Fields :
           Call("get_response_comments", user,
                [ comment_id |-> comment_id, page |-> page, page_size |-> page_size,
                  requested_fields |-> requested_fields ],
                get_response_comments(user, comment_id, page, page_size,
                                      requested_fields))

CreateThread(Data, Max) ==
    /\ last = Idle
    /\ writes < Max
    /\ \E user \in Users, thread_data \in Data :
           Call("create_thread", user, [thread_data |-> thread_data],
                create_thread(user, thread_data))

CreateComment(Data, Max) ==
    /\ last = Idle
    /\ writes < Max
    /\ \E user \in Users, comment_data \in Data :
           Call("create_comment", user, [comment_data |-> comment_data],
                create_comment(user, comment_data))

UpdateThread(Ids, Data, Max) ==
    /\ last = Idle
    /\ writes < Max
    /\ \E user \in Users, thread_id \in Ids, update_data \in Data :
           Call("update_thread", user,
                [thread_id |-> thread_id, update_data |-> update_data],
                update_thread(user, thread_id, update_data))

UpdateComment(Ids, Data, Max) ==
    /\ last = Idle
    /\ writes < Max
    /\ \E user \in Users, comment_id \in Ids, update_data \in Data :
           Call("update_comment", user,
                [comment_id |-> comment_id, update_data |-> update_data],
                update_comment(user, comment_id, update_data))

DeleteThread(Ids, Max) ==
    /\ last = Idle
    /\ writes < Max
    /\ \E user \in Users, thread_id \in Ids :
           Call("delete_thread", user, [thread_id |-> thread_id],
                delete_thread(user, thread_id))

DeleteComment(Ids, Max) ==
    /\ last = Idle
    /\ writes < Max
    /\ \E user \in Users, comment_id \in Ids :
           Call("delete_comment", user, [comment_id |-> comment_id],
                delete_comment(user, comment_id))

\* the response goes back to the caller, and the next request may come
Respond ==
    /\ last # Idle
    /\ last' = Idle
    /\ prev' = NoUpdate
    /\ UNCHANGED <<threads, comments, created, writes, blackout, down>>

\* the response of an update goes back to a caller who keeps what it said
\* about the votes
RespondToUpdate ==
    /\ last # Idle
    /\ last' = Idle
    /\ prev' = [ op |-> last.op, user |-> last.user, args |-> last.args,
                 outcome |-> last.outcome, before |-> last.before,
                 result |-> last.result, trace |-> last.trace,
                 vote_events |-> Len(CallsIn(last.trace, {"track_voted_event"})) ]
    /\ UNCHANGED <<threads, comments, created, writes, blackout, down>>

\* the response of an update goes back to a caller who keeps it when the
\* update changed the comment service
RespondToChange ==
    /\ last # Idle
    /\ last' = Idle
    /\ prev' = IF last.changed
               THEN [ op |-> last.op, user |-> last.user, args |-> last.args,
                      outcome |-> last.outcome, before |-> last.before,
                      result |-> last.result, trace |-> last.trace,
                      vote_events |-> Len(CallsIn(last.trace, {"track_voted_event"})) ]
               ELSE NoUpdate
    /\ UNCHANGED <<threads, comments, created, writes, blackout, down>>

----------------------------------------------------------------------------
\* The inputs of the requests

AllCourseKeys == Courses \cup {"cX"}
Pages == 1..MaxPage
PageSizes == 1..MaxPageSize

ThreadListArgs ==
    [ course_key : Courses, page : Pages, page_size : PageSizes,
      topic_id_list : {<<>>, <<"w1a">>, <<"gen", "w1a">>},
      text_search : {None, "hello"}, following : BOOLEAN,
      author : {None, "bob", "mod", "ghost"}, thread_type : {None},
      flagged : {FALSE}, view : {None, "unread", "bogus"},
      order_by : {"last_activity_at", "title"}, order_direction : {"desc", "asc"},
      requested_fields : {<<>>}, count_flagged : BOOLEAN ]

\* the thread list requests of the full forum: first page, one filter at most
\* two at a time
FewThreadListArgs ==
    [ course_key : Courses, page : {1}, page_size : {MaxPageSize},
      topic_id_list : {<<>>},
      text_search : {None, "hello"}, following : BOOLEAN,
      author : {None}, thread_type : {None},
      flagged : {FALSE}, view : {None},
      order_by : {"last_activity_at", "title"}, order_direction : {"desc"},
      requested_fields : {<<>>}, count_flagged : {FALSE} ]

NewThreadData(course_id, topic_id) ==
    [ course_id |-> course_id, topic_id |-> topic_id, type |-> "discussion",
      title |-> "new", raw_body |-> "text" ]

ThreadData ==
    { NewThreadData("cA", "w1a"),
      NewThreadData("cA", "w1a") @@ [group_id |-> "g1"],
      NewThreadData("cA", "gen"),
      NewThreadData("cA", "gen") @@ [group_id |-> "g1"],
      NewThreadData("cA", "gen") @@ [following |-> TRUE],
      NewThreadData("cB", "gen"),
      NewThreadData("cC", "genC"),
      NewThreadData("cX", "gen"),
      NewThreadData("no key", "gen"),
      [topic_id |-> "gen", type |-> "discussion", title |-> "new", raw_body |-> "text"],
      [course_id |-> "cA", topic_id |-> "w1a", type |-> "discussion", title |-> ""] }

CommentData ==
    { [thread_id |-> "t1", raw_body |-> "text"],
      [thread_id |-> "t1", raw_body |-> "text", parent_id |-> "r1"],
      [thread_id |-> "t2", raw_body |-> "text", voted |-> TRUE],
      [thread_id |-> "t3", raw_body |-> "text"],
      [thread_id |-> "t4", raw_body |-> "text"],
      [thread_id |-> "t5", raw_body |-> "text"],
      [thread_id |-> "t9", raw_body |-> "text"],
      [thread_id |-> "t1", raw_body |-> ""],
      [raw_body |-> "text"] }

ThreadUpdates == { [voted |-> TRUE], [title |-> "edited"], [following |-> TRUE, read |-> TRUE] }

CommentUpdates == { [voted |-> TRUE], [raw_body |-> "edited"] }

\* the items the requests on the full forum are about: a thread of a divided
\* topic, threads of the courses without discussion, and a thread and a
\* comment that are stored nowhere
SomeThreadIds == {"t1", "t4", "t5", "t9"}
SomeCommentIds == {"r1", "r4", "o1", "k9"}

VoteUpdates == {[voted |-> TRUE], [voted |-> FALSE]}

----------------------------------------------------------------------------
\* The specifications

\* every entry function, on the forum as requests change it
Next ==
    \/ GetCourse(AllCourseKeys)
    \/ GetCourseTopics(AllCourseKeys, {{}, {"gen", "nope"}})
    \/ GetThreadList(FewThreadListArgs)
    \/ GetThread(SomeThreadIds \cup DOMAIN threads, {<<>>})
    \/ GetCommentList(SomeThreadIds \cup DOMAIN threads, {1}, {MaxPageSize}, {<<>>})
    \/ GetResponseComments(SomeCommentIds, {1}, {MaxPageSize}, {<<>>})
    \/ CreateThread(ThreadData, MaxWrites)
    \/ CreateComment(CommentData, MaxWrites)
    \/ UpdateThread(SomeThreadIds, ThreadUpdates, MaxWrites)
    \/ UpdateComment(SomeCommentIds, CommentUpdates, MaxWrites)
    \/ DeleteThread(SomeThreadIds, MaxWrites)
    \/ DeleteComment(SomeCommentIds, MaxWrites)
    \/ Respond

Spec == Init /\ [][Next]_vars

\* the read requests, with every filter and page, on the initial forum
InitRead == Init /\ ~blackout

NextRead ==
    \/ GetCourse(AllCourseKeys)
    \/ GetCourseTopics(AllCourseKeys, SUBSET {"gen", "w1a", "w0s", "nope", "nada"})
    \/ GetThreadList(ThreadListArgs)
    \/ GetThread(ThreadIds, {<<>>})
    \/ GetCommentList(ThreadIds, Pages, PageSizes, {<<>>})
    \/ GetResponseComments(CommentIds, Pages, PageSizes, {<<>>})
    \/ Respond

SpecRead == InitRead /\ [][NextRead]_vars

\* votes: updates of the voted flag of threads and comments, one after the
\* other
InitVotes == Init /\ ~blackout

NextVotes ==
    \/ UpdateThread({"t1", "t3"}, VoteUpdates, MaxVotes)
    \/ UpdateComment({"k2"}, VoteUpdates, MaxVotes)
    \/ RespondToUpdate

SpecVotes == InitVotes /\ [][NextVotes]_vars

\* the updates of threads and comments: core fields (changed, unchanged,
\* invalid), action fields, fields the requester may not edit, and several of
\* these in one request
ManyThreadUpdates ==
    { [title |-> "hello"], [title |-> "edited"], [title |-> ""],
      [following |-> TRUE], [voted |-> TRUE], [abuse_flagged |-> TRUE],
      [read |-> TRUE], [read |-> FALSE], [pinned |-> TRUE], [closed |-> TRUE],
      [title |-> "edited", voted |-> TRUE],
      [closed |-> TRUE, following |-> TRUE],
      [title |-> "", type |-> "bogus"],
      [raw_body |-> "", pinned |-> "bogus"],
      [title |-> "", closed |-> TRUE, abuse_flagged |-> TRUE] }

ManyCommentUpdates ==
    { [raw_body |-> "c"], [raw_body |-> "edited"], [raw_body |-> ""],
      [voted |-> TRUE], [abuse_flagged |-> TRUE], [endorsed |-> TRUE],
      [raw_body |-> "edited", voted |-> TRUE],
      [endorsed |-> TRUE, voted |-> TRUE],
      [raw_body |-> "", abuse_flagged |-> "bogus"],
      [raw_body |-> "", endorsed |-> TRUE, thread_id |-> "t2"] }

InitUpdates == Init /\ ~blackout

NextUpdates ==
    \/ CreateThread({ NewThreadData("cA", "gen") @@ [following |-> TRUE, voted |-> FALSE],
                      NewThreadData("cA", "gen") @@ [read |-> TRUE, abuse_flagged |-> TRUE] },
                    MaxUpdates)
    \/ CreateComment({ [thread_id |-> "t1", raw_body |-> "text", voted |-> TRUE],
                       [thread_id |-> "t1", raw_body |-> "text", abuse_flagged |-> FALSE] },
                     MaxUpdates)
    \/ UpdateThread({"t1", "t9"}, ManyThreadUpdates, MaxUpdates)
    \/ UpdateComment({"k2", "k9"}, ManyCommentUpdates, MaxUpdates)
    \/ RespondToChange

SpecUpdates == InitUpdates /\ [][NextUpdates]_vars

\* requests to create with fields that are refused: two fields the serializer
\* rejects, a field that is not initializable with one the serializer rejects,
\* a field the serializer rejects with one the form rejects, and no linkage
InvalidThreadData ==
    { [ course_id |-> "cA", topic_id |-> "gen", type |-> "bogus", title |-> "",
        raw_body |-> "text" ],
      [ course_id |-> "cA", topic_id |-> "gen", type |-> "discussion", title |-> "",
        raw_body |-> "text", group_id |-> "g1" ],
      [ course_id |-> "cA", topic_id |-> "gen", type |-> "discussion", title |-> "new",
        raw_body |-> "", following |-> "bogus" ],
      [ topic_id |-> "gen", title |-> "" ] }

InvalidCommentData ==
    { [thread_id |-> "t1", raw_body |-> "", endorsed |-> TRUE],
      [thread_id |-> "t2", raw_body |-> "", voted |-> "bogus"],
      [thread_id |-> "t2", raw_body |-> "text", parent_id |-> "k1", thread_type |-> "x"],
      [raw_body |-> ""] }

\* requests with fields that are refused
InitInvalid == Init /\ ~blackout

NextInvalid ==
    \/ CreateThread(InvalidThreadData, MaxWrites)
    \/ CreateComment(InvalidCommentData, MaxWrites)
    \/ UpdateThread({"t1", "t2"}, ManyThreadUpdates, MaxWrites)
    \/ UpdateComment({"k2", "r2"}, ManyCommentUpdates, MaxWrites)
    \/ Respond

SpecInvalid == InitInvalid /\ [][NextInvalid]_vars

\* requests to a comment service that fails one kind of call
InitFailures ==
    /\ threads = InitThreads
    /\ comments = InitComments
    /\ created = 0
    /\ writes = 0
    /\ blackout = FALSE
    /\ down \in {{call} : call \in ServiceCalls}
    /\ last = Idle
    /\ prev = NoUpdate

NextFailures ==
    \/ GetCourse({"cA"})
    \/ GetCourseTopics({"cA"}, {{}})
    \/ GetThreadList({a \in FewThreadListArgs :
                         a.course_key = "cA" /\ a.text_search = None
                         /\ a.order_by = "last_activity_at"})
    \/ GetThread({"t1"}, {<<>>})
    \/ GetCommentList({"t1"}, {1}, {MaxPageSize}, {<<>>})
    \/ GetResponseComments({"r1"}, {1}, {MaxPageSize}, {<<>>})
    \/ CreateThread({NewThreadData("cA", "gen") @@ [following |-> TRUE]}, MaxWrites)
    \/ CreateComment({[thread_id |-> "t2", raw_body |-> "text", voted |-> TRUE]}, MaxWrites)
    \/ UpdateThread({"t1"}, { [title |-> "edited", voted |-> TRUE],
                              [following |-> TRUE, read |-> TRUE],
                              [abuse_flagged |-> TRUE], [pinned |-> TRUE] }, MaxWrites)
    \/ UpdateComment({"k2"}, { [raw_body |-> "edited", voted |-> FALSE],
                               [abuse_flagged |-> TRUE] }, MaxWrites)
    \/ DeleteThread({"t1"}, MaxWrites)
    \/ DeleteComment({"r1"}, MaxWrites)
    \/ Respond

SpecFailures == InitFailures /\ [][NextFailures]_vars

\* threads and comments created from data that may fail several checks at
\* once, during a blackout or not, with a comment service that may fail one
\* of the calls of a creation
ManyThreadData ==
    ThreadData \cup InvalidThreadData
    \cup { [ course_id |-> "cX", topic_id |-> "gen", type |-> "bogus", title |-> "",
             raw_body |-> "text", group_id |-> "g1" ],
           NewThreadData("cA", "gen") @@ [voted |-> TRUE, following |-> TRUE] }

ManyCommentData ==
    CommentData \cup InvalidCommentData
    \cup { [thread_id |-> "t9", raw_body |-> "", endorsed |-> TRUE],
           [thread_id |-> "t3", raw_body |-> "", endorsed |-> TRUE],
           [thread_id |-> "t2", raw_body |-> "text", voted |-> TRUE, abuse_flagged |-> TRUE] }

InitCreations ==
    /\ threads = InitThreads
    /\ comments = InitComments
    /\ created = 0
    /\ writes = 0
    /\ blackout \in BOOLEAN
    /\ down \in {{}} \cup {{call} : call \in {"Thread.retrieve", "Thread.save", "Comment.save",
                                              "User.vote", "User.follow"}}
    /\ last = Idle
    /\ prev = NoUpdate

NextCreations ==
    \/ CreateThread(ManyThreadData, MaxWrites)
    \/ CreateComment(ManyCommentData, MaxWrites)
    \/ Respond

SpecCreations == InitCreations /\ [][NextCreations]_vars

\* reads that may ask for the profile images, of a forum where a user wrote
\* several items of a batch, a comment has no author and a response is
\* endorsed by nobody known
RequestedFields == {<<>>, <<"profile_image">>, <<"bogus">>}

ProfileThreadListArgs ==
    [ course_key : Courses, page : {1, 2}, page_size : PageSizes \cup {MaxPageSize + 1},
      topic_id_list : {<<>>},
      text_search : {None}, following : BOOLEAN,
      author : {None, "alice", "ghost"}, thread_type : {None},
      flagged : {FALSE}, view : {None},
      order_by : {"last_activity_at"}, order_direction : {"desc"},
      requested_fields : RequestedFields, count_flagged : {FALSE} ]

InitProfiles ==
    /\ threads = [InitThreads EXCEPT !.t3.user_id = "alice"]
    /\ comments = [InitComments EXCEPT !.k2.user_id = "alice", !.r3.user_id = "mod",
                                       !.r3.endorsed = TRUE]
    /\ created = 0
    /\ writes = 0
    /\ blackout = FALSE
    /\ down = {}
    /\ last = Idle
    /\ prev = NoUpdate

NextProfiles ==
    \/ GetThreadList(ProfileThreadListArgs)
    \/ GetThread(ThreadIds, RequestedFields)
    \/ GetCommentList(ThreadIds, {1, 2}, PageSizes \cup {MaxPageSize + 1}, RequestedFields)
    \/ GetResponseComments(CommentIds, {1, 2}, PageSizes \cup {MaxPageSize + 1},
                           RequestedFields)
    \/ Respond

SpecProfiles == InitProfiles /\ [][NextProfiles]_vars

\* thread lists by author, asked one after the other by callers who keep the
\* answer before: an author who is no user, and a user who wrote no thread
AuthorListArgs ==
    [ course_key : {"cA"}, page : {1, 2}, page_size : {MaxPageSize},
      topic_id_list : {<<>>},
      text_search : {None}, following : {FALSE},
      author : {"ghost", "mod"}, thread_type : {None},
      flagged : {FALSE}, view : {None},
      order_by : {"last_activity_at"}, order_direction : {"desc"},
      requested_fields : {<<>>}, count_flagged : BOOLEAN ]

InitAuthors == Init /\ ~blackout

NextAuthors ==
    \/ GetThreadList(AuthorListArgs)
    \/ RespondToUpdate

SpecAuthors == InitAuthors /\ [][NextAuthors]_vars

----------------------------------------------------------------------------
\* Properties of the read requests (SpecRead)

\* the call being answered passed the course lookup
CourseResolved(course_key) == _get_course(course_key, last.user) = "ok"

\* the topic ids of the course the requester can see
VisibleTopicIds(user, course_key) ==
    {x.discussion_id : x \in Range(get_accessible_discussion_xblocks(course_key, user))}
    \cup {e.id : e \in Range(discussion_topics(course_key))}

\* the topic ids a topic listing holds
ListedTopicIds(result) ==
    UNION {{c.id : c \in Range(tree.children)} : tree \in Range(result.courseware_topics)}
    \cup {t.id : t \in Range(result.non_courseware_topics)}

\* C2: get_course_topics with a non-empty topic_ids fails with
\* DiscussionNotFoundError exactly when a requested id is neither an
\* accessible courseware topic nor a freestanding topic; the error names
\* exactly the requested ids that are missing; and when all are found the
\* listing holds the requested topics only.
C2_TopicsNotFound ==
    (/\ last.op = "get_course_topics"
     /\ last.args.topic_ids # {}
     /\ CourseResolved(last.args.course_key))
    => LET missing == last.args.topic_ids
                      \ VisibleTopicIds(last.user, last.args.course_key)
       IN  /\ (last.outcome = "DiscussionNotFoundError") <=> (missing # {})
           /\ missing # {} => /\ Range(last.named) = missing
                              /\ Len(last.named) = Cardinality(missing)
           /\ missing = {} => /\ last.outcome = "ok"
                              /\ ListedTopicIds(last.result) = last.args.topic_ids

C2_Witness ==
    /\ last.op = "get_course_topics"
    /\ last.args.topic_ids = {"gen", "w0s", "nope"}
    /\ last.user = "alice"
    /\ last.outcome = "DiscussionNotFoundError"
    /\ Range(last.named) = {"w0s", "nope"}

\* the mutually exclusive parameters of a thread list request that are set
ExclusiveSet(a) ==
    {p \in {"topic_id_list", "text_search", "following"} :
        \/ p = "topic_id_list" /\ a.topic_id_list # <<>>
        \/ p = "text_search" /\ a.text_search # None /\ a.text_search # ""
        \/ p = "following" /\ a.following}

\* C3: get_thread_list with more than one of topic_id_list, text_search and
\* following set is rejected with ValueError, before the course lookup and
\* before any call to the comment service.
C3_ExclusiveRejected ==
    (last.op = "get_thread_list" /\ Cardinality(ExclusiveSet(last.args)) > 1)
    => last.outcome = "ValueError" /\ last.trace = <<>>

C3_Witness ==
    /\ last.op = "get_thread_list"
    /\ last.args.following
    /\ last.args.text_search = "hello"
    /\ last.args.topic_id_list = <<>>
    /\ last.args.course_key = "cB"
    /\ last.outcome = "ValueError"

\* the thread of a get_comment_list call was resolved for the requester
ThreadResolved ==
    last.outcome \notin {"ThreadNotFoundError", "CourseNotFoundError", "DiscussionDisabledError"}

\* C4: get_comment_list on an accessible thread fails with ValidationError
\* on 'endorsed' exactly when the thread is a question thread and endorsed is
\* None, or the thread is a discussion thread and endorsed is given.
C4_EndorsedValidation ==
    (last.op = "get_comment_list" /\ ThreadResolved)
    => LET type == threads[last.args.thread_id].thread_type
           misfit == \/ type = "question" /\ last.args.endorsed = None
                     \/ type = "discussion" /\ last.args.endorsed \in {"True", "False"}
       IN  (last.outcome = "ValidationError" /\ last.fields = {"endorsed"}) <=> misfit

C4_Witness ==
    /\ last.op = "get_comment_list"
    /\ last.args.thread_id = "t1"
    /\ last.args.endorsed = "False"
    /\ last.outcome = "ValidationError"
    /\ last.fields = {"endorsed"}

\* C5: a listing never answers a page beyond its last page (that request
\* fails with PageNotFoundError), and page 1 is never refused as not found.
C5_PageBeyondLast ==
    (last.op \in {"get_thread_list", "get_comment_list", "get_response_comments"})
    => /\ last.outcome = "ok" => /\ last.args.page <= last.result.pagination.num_pages
                                 /\ last.result.pagination.count = 0
                                      => last.result.results = <<>>
       /\ last.outcome = "PageNotFoundError" => last.args.page > 1

\* the parameters of a thread list request pass its checks and its course
\* is resolved for the requester
ThreadListAccepted ==
    /\ last.op = "get_thread_list"
    /\ Cardinality(ExclusiveSet(last.args)) <= 1
    /\ last.args.order_by \in {"last_activity_at", "comment_count", "vote_count"}
    /\ last.args.order_direction = "desc"
    /\ CourseResolved(last.args.course_key)

C10_CountFlaggedDenied ==
    (/\ ThreadListAccepted
     /\ last.args.count_flagged
     /\ get_user_role_names(last.user, last.args.course_key) \cap PrivilegedRoles = {})
    => /\ last.outcome = "PermissionDenied"
       /\ CallsIn(last.trace, ServiceCalls) = <<>>


----------------------------------------------------------------------------
\* Properties of the entry functions on the full forum (Spec)

\* the discussion tab of the course is absent, or not enabled for the user
TabOff(course_key, user) ==
    \/ discussion_tab(course_key) = None
    \/ ~tab_is_enabled(course_key, user)

\* the request being answered is about a course without discussion for the
\* requester
AboutCourseWithoutDiscussion ==
    /\ last.op # "none"
    /\ last.target.course \in Courses
    /\ TabOff(last.target.course, last.user)

\* C1 as stated: every entry function fails with DiscussionDisabledError for
\* a course whose discussion tab is absent or not enabled for the requester,
\* whatever the other arguments.
C1_AlwaysDisabled ==
    AboutCourseWithoutDiscussion => last.outcome = "DiscussionDisabledError"

\* C1: for a course the requester can load whose discussion tab is absent
\* or not enabled for the requester, every entry function fails with
\* DiscussionDisabledError, but for get_thread_list, which first rejects more
\* than one exclusive parameter (ValueError) and an invalid order_by or
\* order_direction (ValidationError); for a course the requester cannot load
\* the entry functions that reach the course lookup fail with
\* CourseNotFoundError.
C1_DisabledOnceLookedUp ==
    AboutCourseWithoutDiscussion
    => IF last.op = "get_thread_list" /\ Cardinality(ExclusiveSet(last.args)) > 1
       THEN last.outcome = "ValueError"
       ELSE IF /\ last.op = "get_thread_list"
               /\ \/ last.args.order_by \notin {"last_activity_at", "comment_count", "vote_count"}
                  \/ last.args.order_direction # "desc"
       THEN last.outcome = "ValidationError"
       ELSE IF ~get_course_with_access(last.user, last.target.course)
       THEN last.outcome = "CourseNotFoundError"
       ELSE last.outcome = "DiscussionDisabledError"

C1_Witness ==
    /\ last.op = "update_comment"
    /\ last.args.comment_id = "r4"
    /\ last.user = "mod"
    /\ last.target.course = "cB"
    /\ last.outcome = "DiscussionDisabledError"
    /\ ~last.changed

\* C7: create_thread stores the thread of a divided topic that was given no
\* group_id with the requester's group; it stores a given group_id as given,
\* and no group for a topic that is not divided; and the caller's mapping
\* holds after the call what it held before.
C7_GroupAssigned ==
    (last.op = "create_thread")
    => /\ last.caller_data = last.args.thread_data
       /\ last.outcome = "ok"
          => LET thread_data == last.args.thread_data
                 stored == threads[last.result.id]
             IN  IF "group_id" \in DOMAIN thread_data
                 THEN stored.group_id = thread_data.group_id
                 ELSE IF is_commentable_divided(thread_data.course_id, thread_data.topic_id)
                 THEN stored.group_id = get_group_id_for_user(last.user)
                 ELSE stored.group_id = None

C7_Witness ==
    /\ last.op = "create_thread"
    /\ last.outcome = "ok"
    /\ last.user = "alice"
    /\ "group_id" \notin DOMAIN last.args.thread_data
    /\ last.args.thread_data.topic_id = "w1a"
    /\ threads[last.result.id].group_id = "g1"
    /\ last.caller_data = last.args.thread_data

\* the requests that resolve a thread, about a stored thread of a course the
\* requester has discussion in
ResolvesStoredThread ==
    /\ last.op \in { "get_thread", "get_comment_list", "get_response_comments",
                     "create_comment", "update_thread", "update_comment",
                     "delete_thread", "delete_comment" }
    /\ last.target.thread # None
    /\ _get_course(last.target.course, last.user) = "ok"

NotFoundErrors == {"ThreadNotFoundError", "CommentNotFoundError"}

\* the thread has a group and its topic is divided
InDividedGroup ==
    /\ last.target.group_id # None
    /\ is_commentable_divided(last.target.course, last.target.commentable_id)

Privileged == is_requester_privileged(last.user, last.target.course)

\* C8 as stated: a requester who is not privileged and not in the group of
\* the thread, be it in another group or in none, is refused with a not-found
\* error and changes nothing; a privileged requester is not refused.
C8_HiddenFromOutsiders ==
    (ResolvesStoredThread /\ InDividedGroup)
    => /\ (~Privileged /\ get_group_id_for_user(last.user) # last.target.group_id)
            => last.outcome \in NotFoundErrors /\ ~last.changed
       /\ Privileged => last.outcome \notin NotFoundErrors

\* C8: a requester who is not privileged and is in a group other than the
\* thread's is refused with a not-found error and changes nothing; a
\* privileged requester, and a requester in no group, is not refused.
C8_HiddenFromOtherGroups ==
    (ResolvesStoredThread /\ InDividedGroup)
    => /\ (/\ ~Privileged
           /\ get_group_id_for_user(last.user) # None
           /\ get_group_id_for_user(last.user) # last.target.group_id)
            => last.outcome \in NotFoundErrors /\ ~last.changed
       /\ (Privileged \/ get_group_id_for_user(last.user) = None)
            => last.outcome \notin NotFoundErrors

C8_Witness ==
    /\ last.op = "update_thread"
    /\ last.args.thread_id = "t1"
    /\ last.args.update_data = [voted |-> TRUE]
    /\ last.user = "bob"
    /\ last.outcome = "ThreadNotFoundError"
    /\ ~last.changed

----------------------------------------------------------------------------
\* Properties of votes (SpecVotes)

\* the update being answered sets voted to false, and comes right after an
\* update by the same requester that set voted to true on the same item;
\* both succeeded
VotedThenUnvoted ==
    /\ last.op \in {"update_thread", "update_comment"}
    /\ prev.op = last.op
    /\ prev.user = last.user
    /\ prev.args = [last.args EXCEPT !.update_data = [voted |-> TRUE]]
    /\ last.args.update_data = [voted |-> FALSE]
    /\ prev.outcome = "ok"
    /\ last.outcome = "ok"

VoteEvents == Len(CallsIn(last.trace, {"track_voted_event"}))

\* C6 as stated: whatever the state of the item, voted=true and then
\* voted=false by the same requester reports the vote count there was before
\* the first call, and each call fires one vote-tracking event.
C6_VoteRoundTripAlways ==
    VotedThenUnvoted
    => /\ last.result.vote_count = prev.before.vote_count
       /\ prev.vote_events = 1
       /\ VoteEvents = 1

\* C6: for an item the requester has not voted for, voted=true and then
\* voted=false by the same requester reports the vote count there was before
\* the first call, and each call fires one vote-tracking event.
C6_VoteRoundTrip ==
    (VotedThenUnvoted /\ ~prev.before.voted)
    => /\ last.result.vote_count = prev.before.vote_count
       /\ prev.vote_events = 1
       /\ VoteEvents = 1

C6_Witness ==
    /\ VotedThenUnvoted
    /\ ~prev.before.voted
    /\ last.op = "update_thread"
    /\ last.user = "alice"
    /\ last.args.thread_id = "t1"
    /\ last.result.vote_count = 1
    /\ VoteEvents = 1


----------------------------------------------------------------------------
\* Properties of deletion (Spec)

\* the errors of a request whose thread, comment or course is not resolved
NotResolvedErrors ==
    {"ThreadNotFoundError", "CommentNotFoundError", "CourseNotFoundError",
     "DiscussionDisabledError"}

DeleteCalls == {"Thread.delete", "Comment.delete"}
DeletionSignals == {"thread_deleted", "comment_deleted"}

\* the requester wrote the item a request is about, or is privileged
OwnerOrPrivileged ==
    \/ last.target.author = last.user
    \/ is_requester_privileged(last.user, last.target.course)

\* C11: a delete_thread or delete_comment whose item is resolved deletes the
\* item with one delete call followed by one deletion signal when the
\* requester is its author or privileged, and otherwise fails with
\* PermissionDenied; a delete that fails makes no delete call, fires no
\* signal and changes nothing.
C11_DeletePermission ==
    (last.op \in {"delete_thread", "delete_comment"})
    => LET deletes == CallsIn(last.trace, DeleteCalls)
           signals == CallsIn(last.trace, DeletionSignals)
           kind == IF last.op = "delete_thread" THEN "Thread" ELSE "Comment"
       IN  /\ last.outcome \notin NotResolvedErrors
               => last.outcome = IF OwnerOrPrivileged THEN "ok" ELSE "PermissionDenied"
           /\ last.outcome = "ok"
               => /\ Len(last.trace) >= 2
                  /\ SubSeq(last.trace, Len(last.trace) - 1, Len(last.trace))
                        = IF kind = "Thread" THEN <<"Thread.delete", "thread_deleted">>
                          ELSE <<"Comment.delete", "comment_deleted">>
                  /\ Len(deletes) = 1 /\ Len(signals) = 1
                  /\ last.changed
                  /\ kind = "Thread" => last.args.thread_id \notin DOMAIN threads
                  /\ kind = "Comment" => last.args.comment_id \notin DOMAIN comments
           /\ last.outcome # "ok"
               => deletes = <<>> /\ signals = <<>> /\ ~last.changed

C11_Witness ==
    /\ last.op = "delete_thread"
    /\ last.args.thread_id = "t1"
    /\ last.user = "alice"
    /\ ~is_requester_privileged("alice", "cA")
    /\ last.outcome = "ok"
    /\ last.trace = <<"Thread.retrieve", "_get_course", "Thread.delete", "thread_deleted">>
    /\ "t1" \notin DOMAIN threads
    /\ "r1" \notin DOMAIN comments

----------------------------------------------------------------------------
\* Properties of updates (SpecUpdates)

IsUpdate == last.op \in {"update_thread", "update_comment"}

\* the action fields of the form of the item an update is for
ActionFieldsOf(op) ==
    IF op = "update_thread" THEN Range(ThreadActionFields) ELSE Range(CommentActionFields)

\* the core fields an update holds
CoreFieldsGiven == DOMAIN last.args.update_data \ ActionFieldsOf(last.op)

\* the value the stored item holds for a core field of the API
StoredValue(item, f) ==
    CASE f = "raw_body" /\ last.op = "update_thread" -> item.body
      [] f = "topic_id" -> item.commentable_id
      [] f = "type" -> item.thread_type
      [] OTHER -> item[f]

\* the core fields an update holds with a value other than the stored one
CoreFieldsChanged ==
    {f \in CoreFieldsGiven : last.args.update_data[f] # StoredValue(last.item, f)}

Saves == CallsIn(last.trace, {"Thread.save", "Comment.save"})
EditSignals == CallsIn(last.trace, {"thread_edited", "comment_edited"})

\* C12 as stated: a successful update saves, and fires the edit signal, when
\* and only when a core field it holds changes value.
C12_SaveWhenChanged ==
    (IsUpdate /\ last.outcome = "ok")
    => /\ Len(Saves) = (IF CoreFieldsChanged # {} THEN 1 ELSE 0)
       /\ Len(EditSignals) = Len(Saves)

\* C12: a successful update saves once when it holds a core field, be its
\* value new or the stored one, and not at all when it holds action fields
\* only; the edit signal is fired when the save is made, right after it; an
\* update that fails neither saves nor fires the signal.
C12_SaveWhenCoreFieldGiven ==
    IsUpdate
    => /\ last.outcome = "ok"
           => Len(Saves) = (IF CoreFieldsGiven # {} THEN 1 ELSE 0)
       /\ last.outcome # "ok" => Saves = <<>>
       /\ Len(EditSignals) = Len(Saves)
       /\ \A i \in 1..Len(last.trace) :
              last.trace[i] \in {"Thread.save", "Comment.save"}
              => /\ i < Len(last.trace)
                 /\ last.trace[i + 1] \in {"thread_edited", "comment_edited"}

C12_Witness ==
    /\ last.op = "update_thread"
    /\ last.user = "alice"
    /\ last.args = [thread_id |-> "t1", update_data |-> [title |-> "hello"]]
    /\ last.item.title = "hello"
    /\ last.outcome = "ok"
    /\ Saves = <<"Thread.save">>
    /\ EditSignals = <<"thread_edited">>


\* C13: every successful update_thread returns the thread with read true
\* and unread_comment_count 0, whatever the update holds and whoever has read
\* the thread.
C13_ReturnedAsRead ==
    (last.op = "update_thread" /\ last.outcome = "ok")
    => last.result.read = TRUE /\ last.result.unread_comment_count = 0

C13_Witness ==
    /\ last.op = "update_thread"
    /\ last.args = [thread_id |-> "t1", update_data |-> [read |-> FALSE]]
    /\ last.user = "carol"
    /\ "carol" \notin threads["t1"].readers
    /\ CommentsOf(World, "t1") # {}
    /\ last.outcome = "ok"
    /\ CallsIn(last.trace, {"User.read"}) = <<>>
    /\ last.result.read = TRUE
    /\ last.result.unread_comment_count = 0


\* the item of an update and its thread are resolved for the requester
UpdateResolved == IsUpdate /\ last.outcome \notin NotResolvedErrors

\* the fields the requester may edit of the item of an update
EditableFields ==
    IF last.op = "update_thread"
    THEN LET cc_thread == Thread_retrieve(World, last.args.thread_id, None)
         IN  get_editable_fields(cc_thread, cc_thread, last.user)
    ELSE LET cc_comment == Comment_retrieve(World, last.args.comment_id)
             cc_thread == Thread_retrieve(World, cc_comment.thread_id, None)
         IN  get_editable_fields(cc_comment, cc_thread, last.user)

\* the calls that resolve the item of a request
ResolvingCalls == {"Thread.retrieve", "Comment.retrieve", "_get_course"}

RequestData ==
    CASE last.op = "create_thread" -> last.args.thread_data
      [] last.op = "create_comment" -> last.args.comment_data
      [] OTHER -> last.args.update_data

\* the calls to the comment service that an action field stands for
ActionCalls(field) ==
    CASE field = "following" -> {"User.follow", "User.unfollow"}
      [] field = "abuse_flagged" -> {"flagAbuse", "unFlagAbuse"}
      [] field = "voted" -> {"User.vote", "User.unvote"}
      [] field = "read" -> {"User.read"}
      [] field = "pinned" -> {"Thread.pin", "Thread.un_pin"}

\* the value the serializer gives an action field of the item before the
\* request acts: false on an item just created; a thread that is updated is
\* retrieved for no requester and is serialized as not read
SerializedBefore(field) ==
    IF last.op \in {"create_thread", "create_comment"} THEN FALSE
    ELSE CASE field = "following" -> last.user \in last.item.subscribers
           [] field = "abuse_flagged" -> last.user \in last.item.abuse_flaggers
           [] field = "voted" -> last.user \in last.item.voters
           [] field = "read" -> FALSE
           [] field = "pinned" -> last.item.pinned

\* the action fields of the form of the request being answered
ActionFieldsOfRequest ==
    IF last.op \in {"create_thread", "update_thread"}
    THEN Range(ThreadActionFields) ELSE Range(CommentActionFields)

\* the call of every action field is made when, and only when, the request
\* holds the field with a value other than the serialized one
ActedWhenChanged ==
    (/\ last.op \in {"create_thread", "create_comment", "update_thread", "update_comment"}
     /\ last.outcome = "ok")
    => \A field \in ActionFieldsOfRequest :
           (CallsIn(last.trace, ActionCalls(field)) # <<>>)
           <=> (/\ field \in DOMAIN RequestData
                /\ RequestData[field] # SerializedBefore(field))

\* the update being answered holds action fields only and repeats the update
\* made right before, by the same requester on the same item; both succeeded
RepeatsActionUpdate ==
    /\ IsUpdate
    /\ prev.op = last.op
    /\ prev.user = last.user
    /\ prev.outcome = "ok"
    /\ last.outcome = "ok"
    /\ CoreFieldsGiven = {}
    /\ prev.args = last.args

\* the calls and events of a request past the resolution of its item
CallsPastResolution == SeqFilter(last.trace, Range(last.trace) \ ResolvingCalls)

\* C18 as stated: the call of an action field is made when and only when the
\* field is given with a value other than the serialized one; and an
\* action-only update made twice in a row makes no call and fires no event
\* the second time, and answers as the first time.
C18_RepeatIsSilent ==
    /\ ActedWhenChanged
    /\ RepeatsActionUpdate
        => CallsPastResolution = <<>> /\ last.result = prev.result

\* C18: the call of an action field is made when and only when the field is
\* given with a value other than the serialized one; an action-only update
\* made twice in a row answers the second time as the first and makes no
\* follow, flag, vote or pin call and fires no event, but it marks the thread
\* as read again when it holds read = true.
C18_RepeatIsSilentButRead ==
    /\ ActedWhenChanged
    /\ RepeatsActionUpdate
        => /\ last.result = prev.result
           /\ CallsPastResolution =
                IF "read" \in DOMAIN RequestData /\ RequestData.read
                THEN <<"User.read">> ELSE <<>>

C18_Witness ==
    /\ RepeatsActionUpdate
    /\ last.op = "update_thread"
    /\ last.user = "alice"
    /\ last.args = [thread_id |-> "t1", update_data |-> [following |-> TRUE]]
    /\ CallsIn(prev.trace, {"User.follow"}) = <<"User.follow">>
    /\ CallsPastResolution = <<>>
    /\ last.result.following = TRUE

\* an update that marks a thread as read is made twice in a row
C18_ReadAgain ==
    /\ RepeatsActionUpdate
    /\ last.args.update_data = [read |-> TRUE]
    /\ CallsPastResolution = <<"User.read">>


----------------------------------------------------------------------------
\* Properties of creation (Spec)

\* C15: create_comment on a closed thread that is resolved for the
\* requester, within the posting window of the requester, fails with
\* PermissionDenied, for the privileged requester as for any other; no
\* comment is stored, no signal or event is fired, no extra action is done.
C15_ClosedThreadRefused ==
    (/\ last.op = "create_comment"
     /\ last.target.thread # None
     /\ threads[last.target.thread].closed
     /\ last.outcome \notin NotResolvedErrors
     /\ discussion_open_for_user(last.target.course, last.user))
    => /\ last.outcome = "PermissionDenied"
       /\ Range(last.trace) \subseteq ResolvingCalls
       /\ ~last.changed

C15_Witness ==
    /\ last.op = "create_comment"
    /\ last.args.comment_data = [thread_id |-> "t3", raw_body |-> "text"]
    /\ last.user = "mod"
    /\ is_requester_privileged("mod", "cA")
    /\ threads["t3"].closed
    /\ last.outcome = "PermissionDenied"
    /\ threads["t3"].children = <<>>


----------------------------------------------------------------------------
\* Properties of validation (SpecInvalid)

\* a request to create or to update that reaches the checks of its fields
ReachesFieldChecks ==
    /\ last.op \in {"create_thread", "create_comment", "update_thread", "update_comment"}
    /\ last.op = "create_thread" => Truthy(Get(RequestData, "course_id"))
    /\ last.op = "create_comment" => Truthy(Get(RequestData, "thread_id"))
    /\ last.outcome \notin NotResolvedErrors
                           \cup {"DiscussionBlackOutException", "PermissionDenied"}

\* the fields of the request that the requester may not set
FieldsNotAllowed ==
    LET cc_thread == Thread_retrieve(World, last.target.thread, None)
    IN  CASE last.op = "create_thread" ->
                 DOMAIN RequestData
                 \ get_initializable_thread_fields(last.user, last.target.course)
          [] last.op = "create_comment" ->
                 DOMAIN RequestData \ get_initializable_comment_fields(last.user, cc_thread)
          [] OTHER -> DOMAIN RequestData \ EditableFields

\* the fields of the request that the serializer rejects
FieldsSerializerRejects ==
    CASE last.op = "create_thread" -> ThreadSerializer_errors(RequestData, FALSE)
      [] last.op = "update_thread" -> ThreadSerializer_errors(RequestData, TRUE)
      [] last.op = "create_comment" -> CommentSerializer_errors(World, RequestData, FALSE)
      [] OTHER -> CommentSerializer_errors(World, RequestData, TRUE)

\* the fields of the request that the actions form rejects
FieldsFormRejects ==
    ActionsForm_errors(IF last.op \in {"create_thread", "update_thread"}
                       THEN ThreadActionFields ELSE CommentActionFields, RequestData)

\* C16 as stated: the ValidationError of a request with refused fields
\* reports the fields not allowed, the fields the serializer rejects and the
\* fields the form rejects, all together.
C16_AllReportedTogether ==
    (/\ ReachesFieldChecks
     /\ FieldsNotAllowed \cup FieldsSerializerRejects \cup FieldsFormRejects # {})
    => /\ last.outcome = "ValidationError"
       /\ last.fields = FieldsNotAllowed \cup FieldsSerializerRejects \cup FieldsFormRejects

\* C16: the ValidationError of a request with fields the requester may not
\* set reports those fields, all of them, and no other; the ValidationError
\* of a request whose fields are all allowed reports the fields the
\* serializer rejects and the fields the form rejects, all together.
C16_ReportedPerCheck ==
    (/\ ReachesFieldChecks
     /\ FieldsNotAllowed \cup FieldsSerializerRejects \cup FieldsFormRejects # {})
    => /\ last.outcome = "ValidationError"
       /\ last.fields = IF FieldsNotAllowed # {} THEN FieldsNotAllowed
                        ELSE FieldsSerializerRejects \cup FieldsFormRejects
       /\ ~last.changed

C16_Witness ==
    /\ last.op = "update_thread"
    /\ last.user = "mod"
    /\ last.args.thread_id = "t1"
    /\ DOMAIN last.args.update_data = {"raw_body", "pinned"}
    /\ FieldsNotAllowed = {}
    /\ FieldsSerializerRejects = {"raw_body"}
    /\ FieldsFormRejects = {"pinned"}
    /\ last.outcome = "ValidationError"
    /\ last.fields = {"raw_body", "pinned"}


----------------------------------------------------------------------------
\* Properties of a failing comment service (SpecFailures)

\* the request being answered made a call that the comment service failed
MadeFailingCall == \E i \in 1..Len(last.trace) : last.trace[i] \in down

\* C17 as stated: a request that makes a call the comment service fails
\* ends with ThreadNotFoundError or CommentNotFoundError.
C17_AlwaysTranslated ==
    MadeFailingCall => last.outcome \in NotFoundErrors

\* C17: a request whose retrieval of the thread fails ends with
\* ThreadNotFoundError, one whose retrieval of the comment fails with
\* CommentNotFoundError; a request that fails at another call (search,
\* subscribed threads, thread counts, save, delete, follow, flag, vote, read,
\* pin) ends with the error of the client, CommentClientRequestError; the
\* failing call is the last thing the request does.
C17_TranslatedAtRetrieval ==
    /\ MadeFailingCall
        => /\ last.trace[Len(last.trace)] \in down
           /\ last.outcome =
                CASE last.trace[Len(last.trace)] = "Thread.retrieve" -> "ThreadNotFoundError"
                  [] last.trace[Len(last.trace)] = "Comment.retrieve" -> "CommentNotFoundError"
                  [] OTHER -> "CommentClientRequestError"
    /\ last.outcome = "CommentClientRequestError" => MadeFailingCall

C17_Witness ==
    /\ down = {"User.vote"}
    /\ last.op = "update_thread"
    /\ last.user = "alice"
    /\ last.args = [thread_id |-> "t1", update_data |-> [title |-> "edited", voted |-> TRUE]]
    /\ last.outcome = "CommentClientRequestError"
    /\ last.trace = << "Thread.retrieve", "_get_course", "Thread.save", "thread_edited",
                       "thread_voted", "User.vote" >>
    /\ threads["t1"].title = "edited"
    /\ "alice" \notin threads["t1"].voters


----------------------------------------------------------------------------
\* Properties of the order of a creation (SpecCreations)

IsCreation == last.op \in {"create_thread", "create_comment"}

\* the field that links the new item to its course or to its thread
LinkageField == IF last.op = "create_thread" THEN "course_id" ELSE "thread_id"

\* the check of the linkage field refuses the request
LinkageMissing == ~Truthy(Get(RequestData, LinkageField))

\* the check of the access to the course or to the thread refuses the request
AccessRefused ==
    IF last.op = "create_thread"
    THEN \/ ~ValidCourseKey(RequestData.course_id)
         \/ _get_course(RequestData.course_id, last.user) # "ok"
    ELSE _get_thread_and_context(World, last.user, RequestData.thread_id, None).error # "ok"

\* the request passes the linkage and access checks, while posting is open
\* and on a thread that is not closed
CreationReachesFieldChecks ==
    /\ IsCreation
    /\ ~LinkageMissing
    /\ ~AccessRefused
    /\ last.outcome \notin {"DiscussionBlackOutException", "PermissionDenied"}

\* what a creation does past the checks of access, in order
CreationSteps == SeqFilter(last.trace, Range(last.trace) \ ResolvingCalls)

PersistCall == IF last.op = "create_thread" THEN "Thread.save" ELSE "Comment.save"
CreationSignal == IF last.op = "create_thread" THEN "thread_created" ELSE "comment_created"
CreationEvent ==
    IF last.op = "create_thread" THEN "track_thread_created_event"
    ELSE "track_comment_created_event"

\* the calls, signals and events of the extra actions
ExtraActionSteps ==
    UNION {ActionCalls(field) : field \in Range(ThreadActionFields)}
    \cup {"thread_voted", "comment_voted", "track_voted_event"}

\* the item that the creation being answered has stored
Persisted ==
    /\ created >= 1
    /\ IF last.op = "create_thread" THEN ("n" \o ToString(created)) \in DOMAIN threads
       ELSE ("n" \o ToString(created)) \in DOMAIN comments

\* C19: a creation checks the linkage field, then the access to the course
\* or thread, then the fields that may be initialised, then the serializer
\* and the actions form, then persists, sends the creation signal, performs
\* the extra actions and emits the creation event, in this order: the first
\* check that fails decides the error; when a check fails nothing is
\* persisted and no signal, action or event happens; and the signal is sent
\* only after the item was persisted.
C19_CreationInOrder ==
    IsCreation =>
      /\ LinkageMissing
          => /\ last.outcome = "ValidationError"
             /\ last.fields = {LinkageField}
             /\ last.trace = <<>>
      /\ (~LinkageMissing /\ AccessRefused)
          => /\ \/ last.outcome \in NotResolvedErrors
                \/ last.outcome = "ValidationError" /\ last.fields = {"course_id"}
             /\ CreationSteps = <<>>
      /\ (CreationReachesFieldChecks /\ FieldsNotAllowed # {})
          => /\ last.outcome = "ValidationError"
             /\ last.fields = FieldsNotAllowed
      /\ (/\ CreationReachesFieldChecks
          /\ FieldsNotAllowed = {}
          /\ FieldsSerializerRejects \cup FieldsFormRejects # {})
          => /\ last.outcome = "ValidationError"
             /\ last.fields = FieldsSerializerRejects \cup FieldsFormRejects
      /\ last.outcome \in NotResolvedErrors
                          \cup {"ValidationError", "DiscussionBlackOutException",
                                "PermissionDenied"}
          => /\ CreationSteps = <<>>
             /\ ~last.changed
      /\ \A i \in 1..Len(last.trace) :
             last.trace[i] \in ResolvingCalls
             => \A j \in 1..(i - 1) : last.trace[j] \in ResolvingCalls
      /\ \A i \in 1..Len(CreationSteps) :
             /\ CreationSteps[i] = PersistCall <=> i = 1
             /\ CreationSteps[i] = CreationSignal <=> i = 2
             /\ CreationSteps[i] = CreationEvent
                 => i = Len(CreationSteps) /\ i > 2 /\ last.outcome = "ok"
             /\ i > 2 => CreationSteps[i] \in ExtraActionSteps \cup {CreationEvent}
      /\ CreationSignal \in Range(last.trace) => Persisted
      /\ last.outcome = "ok"
          => /\ Len(CreationSteps) >= 3
             /\ CreationSteps[Len(CreationSteps)] = CreationEvent
             /\ Persisted

C19_Witness ==
    /\ last.op = "create_comment"
    /\ last.user = "alice"
    /\ last.args.comment_data =
           [thread_id |-> "t2", raw_body |-> "text", voted |-> TRUE, abuse_flagged |-> TRUE]
    /\ last.outcome = "ok"
    /\ CreationSteps = << "Comment.save", "comment_created", "comment_voted", "User.vote",
                          "track_voted_event", "flagAbuse", "track_comment_created_event" >>
    /\ "n1" \in DOMAIN comments

\* a creation that fails two checks is refused by the first one
C19_FirstCheckDecides ==
    /\ last.op = "create_comment"
    /\ last.args.comment_data = [thread_id |-> "t1", raw_body |-> "", endorsed |-> TRUE]
    /\ FieldsNotAllowed = {"endorsed"}
    /\ FieldsSerializerRejects = {"raw_body"}
    /\ last.outcome = "ValidationError"
    /\ last.fields = {"endorsed"}


----------------------------------------------------------------------------
\* Properties of the profile images (SpecProfiles)

\* the request being answered has serialized a batch of threads or comments
SerializedBatch ==
    /\ last.op \in {"get_thread_list", "get_thread", "get_comment_list",
                    "get_response_comments"}
    /\ last.outcome = "ok"
    /\ last.op = "get_thread_list"
        => CallsIn(last.trace, {"Thread.search", "User.subscribed_threads"}) # <<>>

\* the serialized entities of the response, each with its 'users'
Batch == IF last.op = "get_thread" THEN <<last.result>> ELSE last.result.results

BatchOfComments == last.op \in {"get_comment_list", "get_response_comments"}

ProfileImageRequested == "profile_image" \in Range(last.args.requested_fields)

\* the author of the entity, if any, and the endorser of an endorsed comment
UsersOf(entity) ==
    ({entity.author} \ {None, ""})
    \cup (IF BatchOfComments /\ entity.endorsed
          THEN {entity.endorsed_by} \ {None, ""} ELSE {})

AccountLookups == CallsIn(last.trace, {"get_account_settings"})

\* C20: a batch serialized with profile_image requested makes one account
\* lookup, with a list of usernames without repeats that holds exactly the
\* authors, but the empty one, and the endorsers of the endorsed entities of
\* the batch, and every entity gets a 'users' map with its author, if any,
\* and its endorser if it is an endorsed comment; a batch serialized without
\* profile_image requested makes no lookup and no entity gets 'users'.
C20_ProfilesOfBatch ==
    SerializedBatch =>
      IF ProfileImageRequested
      THEN /\ Len(AccountLookups) = 1
           /\ Len(last.lookups) = 1
           /\ \A i, j \in 1..Len(last.lookups[1]) :
                  last.lookups[1][i] = last.lookups[1][j] => i = j
           /\ Range(last.lookups[1]) = UNION {UsersOf(Batch[i].entity) : i \in 1..Len(Batch)}
           /\ \A i \in 1..Len(Batch) :
                  /\ Batch[i].users.given
                  /\ {pair[1] : pair \in Batch[i].users.map} = UsersOf(Batch[i].entity)
      ELSE /\ AccountLookups = <<>>
           /\ last.lookups = <<>>
           /\ \A i \in 1..Len(Batch) : ~Batch[i].users.given

C20_Witness ==
    /\ SerializedBatch
    /\ ProfileImageRequested
    /\ last.op = "get_comment_list"
    /\ last.args.thread_id = "t2"
    /\ Len(Batch) = 2
    /\ Batch[1].entity.author = "alice"
    /\ Batch[1].entity.endorsed_by = "mod"
    /\ Batch[2].entity.author = "mod"
    /\ Batch[2].entity.endorsed
    /\ Batch[2].entity.endorsed_by = None
    /\ last.lookups = << <<"alice", "mod">> >>
    /\ {pair[1] : pair \in Batch[2].users.map} = {"mod"}


----------------------------------------------------------------------------
\* Properties of the pages of comments (SpecRead)

\* a list of responses or of the comments of a response is returned
CommentsListed ==
    /\ last.op \in {"get_comment_list", "get_response_comments"}
    /\ last.outcome = "ok"

\* C21: a returned page of responses, or of comments of a response, asked
\* with a page size of one or more, reports as number of pages the count
\* divided by the page size, rounded up, when the count is positive, and one
\* page when the count is zero; and the page asked for is none past the
\* number of pages reported.
C21_PagesOfComments ==
    (CommentsListed /\ last.args.page_size >= 1)
    => LET count == last.result.pagination.count
           num_pages == last.result.pagination.num_pages
       IN  /\ count > 0
               => /\ num_pages * last.args.page_size >= count
                  /\ (num_pages - 1) * last.args.page_size < count
           /\ count = 0 => num_pages = 1
           /\ last.args.page <= num_pages

C21_Witness ==
    /\ CommentsListed
    /\ last.op = "get_response_comments"
    /\ last.args.comment_id = "r1"
    /\ last.args.page = 2
    /\ last.args.page_size = 2
    /\ last.result.pagination.count = 3
    /\ last.result.pagination.num_pages = 2
    /\ Len(last.result.results) = 1


----------------------------------------------------------------------------
\* Properties of the resolution of a comment (Spec)

\* the comment an update or a delete names is not stored, or its thread is
\* not stored, or its thread is, in a course open to the requester, of a
\* divided topic and of a group other than the requester's
CommentInaccessible ==
    /\ last.op \in {"update_comment", "delete_comment"}
    /\ \/ last.target.thread = None
       \/ /\ _get_course(last.target.course, last.user) = "ok"
          /\ ~is_requester_privileged(last.user, last.target.course)
          /\ last.target.group_id # None
          /\ is_commentable_divided(last.target.course, last.target.commentable_id)
          /\ get_group_id_for_user(last.user) \notin {None, last.target.group_id}

\* C22: an update or a delete of a comment that is not stored, or that the
\* requester cannot access (thread not stored, or thread of a divided topic
\* and another group), ends with CommentNotFoundError.
C22_InaccessibleIsCommentNotFound ==
    CommentInaccessible => last.outcome = "CommentNotFoundError"


----------------------------------------------------------------------------
\* Properties of the filters of the thread list (SpecRead)

\* the thread list is refused for the value of this field, before a search
ThreadListRefusedFor(field) ==
    /\ last.outcome = "ValidationError"
    /\ field \in last.fields
    /\ CallsIn(last.trace, {"Thread.search", "User.subscribed_threads"}) = <<>>

\* the thread list request passes every check made before the filters are
\* built: exclusive parameters, ordering, course, author, count_flagged
ThreadListReachesFilters ==
    /\ last.op = "get_thread_list"
    /\ exclusive_param_count(last.args) <= 1
    /\ last.args.order_by \in DOMAIN cc_map
    /\ last.args.order_direction = "desc"
    /\ _get_course(last.args.course_key, last.user) = "ok"
    /\ ~(Truthy(last.args.author) /\ author_does_not_exist(last.args.author))
    /\ ~(last.args.count_flagged /\ ~is_requester_privileged(last.user, last.args.course_key))

\* C23: a thread list asked with an order_by other than last_activity_at,
\* comment_count and vote_count, with an order_direction other than desc, or
\* with a view that is not empty and neither unread nor unanswered, ends
\* with a ValidationError on that field, and no search is made.
C23_InvalidFilterRefused ==
    /\ (/\ last.op = "get_thread_list"
        /\ exclusive_param_count(last.args) <= 1
        /\ last.args.order_by \notin {"last_activity_at", "comment_count", "vote_count"})
        => ThreadListRefusedFor("order_by")
    /\ (/\ last.op = "get_thread_list"
        /\ exclusive_param_count(last.args) <= 1
        /\ last.args.order_by \in {"last_activity_at", "comment_count", "vote_count"}
        /\ last.args.order_direction # "desc")
        => ThreadListRefusedFor("order_direction")
    /\ (/\ ThreadListReachesFilters
        /\ Truthy(last.args.view)
        /\ last.args.view \notin {"unread", "unanswered"})
        => ThreadListRefusedFor("view")


----------------------------------------------------------------------------
\* Properties of the thread list of an author (SpecAuthors)

\* the thread list being answered was asked for a user who wrote no thread,
\* right after the same list was asked, by the same requester, for an author
\* who is no user
SameListForNoUserThenUser ==
    /\ prev.op = "get_thread_list"
    /\ last.op = "get_thread_list"
    /\ prev.user = last.user
    /\ author_does_not_exist(prev.args.author)
    /\ ~author_does_not_exist(last.args.author)
    /\ \A t \in DOMAIN threads : threads[t].user_id # last.args.author
    /\ [prev.args EXCEPT !.author = last.args.author] = last.args

\* C24: a thread list asked for an author who is no user, and the same list
\* asked by the same requester for a user who wrote no matching thread, end
\* the same way: both succeed with the same results and pagination, or both
\* fail with the same error.
C24_AuthorExistenceHidden ==
    SameListForNoUserThenUser
    => /\ prev.outcome = last.outcome
       /\ last.outcome = "ok" => prev.result = last.result


----------------------------------------------------------------------------
\* Properties of the pages of the comments of a response (SpecRead)

\* the comments of a stored comment of a thread the requester can access are
\* asked for, a page of one comment or more
ResponseCommentsAsked ==
    /\ last.op = "get_response_comments"
    /\ last.args.comment_id \in DOMAIN comments
    /\ last.args.page_size >= 1
    /\ _get_thread_and_context(World, last.user, comments[last.args.comment_id].thread_id,
                               None).error = "ok"

\* the comment asked about is a response of its thread
IsResponse == comments[last.args.comment_id].parent_id = None

\* the children, in stored order, of the comment asked about when it is a
\* response; none when it is not
ChildrenAsked ==
    IF IsResponse THEN comments[last.args.comment_id].children ELSE <<>>

\* the number of the last page of the children
LastPage ==
    IF ChildrenAsked = <<>> THEN 1
    ELSE CHOOSE n \in 1..Len(ChildrenAsked) :
             /\ n * last.args.page_size >= Len(ChildrenAsked)
             /\ (n - 1) * last.args.page_size < Len(ChildrenAsked)

\* the ids of the comments returned, in order
ReturnedIds == [i \in 1..Len(last.result.results) |-> last.result.results[i].entity.id]

\* C25: the comments of a response of an accessible thread are returned for
\* every page up to the last, page p holding the children at positions
\* page_size*(p-1) to page_size*p - 1 in stored order, so that the pages in
\* order hold every child once; a page past the last ends with
\* PageNotFoundError; a stored comment that is no response of its thread
\* gives an empty first page with count 0.
C25_PagesOfChildren ==
    ResponseCommentsAsked =>
      /\ last.args.page <= LastPage
          => /\ last.outcome = "ok"
             /\ last.result.pagination.num_pages = LastPage
             /\ last.result.pagination.count = Len(ChildrenAsked)
             /\ LET first == last.args.page_size * (last.args.page - 1)
                    left == Len(ChildrenAsked) - first
                    size == IF left < last.args.page_size THEN left
                            ELSE last.args.page_size
                IN  ReturnedIds = [i \in 1..size |-> ChildrenAsked[first + i]]
      /\ last.args.page > LastPage => last.outcome = "PageNotFoundError"
      /\ (~IsResponse /\ last.args.page = 1)
          => /\ last.outcome = "ok"
             /\ last.result.results = <<>>
             /\ last.result.pagination.count = 0

C25_Witness ==
    /\ ResponseCommentsAsked
    /\ last.args.comment_id = "r1"
    /\ last.args.page = 2
    /\ last.args.page_size = 2
    /\ ChildrenAsked = <<"k1", "k2", "k3">>
    /\ LastPage = 2
    /\ last.outcome = "ok"
    /\ ReturnedIds = <<"k3">>

\* the comments of a comment that is no response are asked for
C25_NotAResponse ==
    /\ ResponseCommentsAsked
    /\ last.args.comment_id = "k1"
    /\ last.args.page = 1
    /\ last.outcome = "ok"
    /\ last.result.results = <<>>

====
